---- MODULE Spec2Model ----
(***************************************************************************)
(* A model of simple-content-mcp: the batch handlers (fan-out of one tool  *)
(* call into per-item goroutines, join, index-ordered reassembly) and the  *)
(* /mcp endpoint of the HTTP Streamable transport (origin, protocol        *)
(* version, session id and credential checks in front of the SDK's stream  *)
(* handler).                                                               *)
(***************************************************************************)
EXTENDS Integers, Sequences, FiniteSets, TLC

VARIABLES
    \* ---- batch handlers (handleBatchUpload / handleBatchGetDetails) ----
    bTool,      \* which batch tool the call is for
    bArgs,      \* the call's arguments (req.Params.Arguments, decoded)
    bpc,        \* the handler's position
    bSpawn,     \* the spawn loop's next index
    results,    \* the results slice, one slot per item
    upc,        \* each per-item goroutine's position
    ulocal,     \* each goroutine's result value waiting to be stored
    wg,         \* sync.WaitGroup counter
    mu,         \* sync.Mutex holder (a unit index, or Unlocked)
    svcCalls,   \* the items whose backend call has been made
    bResp,      \* what the handler returned
    \* ---- /mcp endpoint (serveSSE) ----
    cfgHost,    \* s.config.Host
    cfgAuth,    \* s.config.AuthEnabled (with a non-nil Authenticator)
    keys,       \* APIKeyAuthenticator.keys
    now,        \* the wall clock read by time.Now()
    httpReq,    \* the request being answered
    httpResp,   \* the answer: status, body, and what reached the stream handler
    \* ---- tool calls and resource reads ----
    cfgMode,         \* s.config.Mode
    cfgResources,    \* s.config.EnableResources
    cfgRequireOwner, \* s.config.RequireOwnerID
    cfgAdmin,        \* s.adminService != nil
    cfgDefaultPage,  \* s.config.DefaultPageSize
    cfgMaxPage,      \* s.config.MaxPageSize
    store,           \* the contents the backend holds, in the order it lists them
    fault,           \* the error every backend call fails with, "" when healthy
    callReq,         \* the latest tool call or resource read
    callResp,        \* what it returned
    callTrace,       \* the backend calls made for it, in order
    callAuth,        \* the key validated for it at the transport and in the middleware
    \* ---- APIKeyAuthenticator under concurrent use ----
    rwWriter,   \* the goroutine that holds a.mu for writing, or NoThread
    rwReaders,  \* the goroutines that hold a.mu for reading
    mapBusy,    \* a write of a.keys is under way
    tpc,        \* each goroutine's position
    tkey,       \* the key each goroutine's call is about
    vlocal,     \* Validate's keyInfo
    vres,       \* what Validate is about to return
    vposs,      \* what the Validate in progress may return: one value for each
                \* moment since it was called
    vmustFail,  \* the key was not registered when the Validate in progress was
                \* called, and no AddKey of it has been under way since
    \* ---- functions applied once to an input ----
    fnArg,      \* the input
    fnRet,      \* what the function returned, NoError before it has run
    \* ---- an open stream of the /mcp endpoint ----
    stream,     \* whether a stream is open, and the api_key in its context
    \* ---- Serve in SSE mode ----
    ctxDone,    \* the context passed to Serve has been cancelled
    srvState,   \* "serving", "shutdown" (server.Shutdown is running) or "returned"
    \* ---- update_content handlers running concurrently ----
    uStore,     \* the content the backend stores, with its metadata
    upd,        \* each handler goroutine's position, arguments, content and result
    updCalls,   \* the number of update_content calls made so far
    updOverlap  \* the two goroutines' latest calls were in progress at the same time

batchVars == <<bTool, bArgs, bpc, bSpawn, results, upc, ulocal, wg, mu, svcCalls, bResp>>
gateVars == <<cfgHost, cfgAuth, keys, now, httpReq, httpResp>>
callVars == <<cfgMode, cfgResources, cfgRequireOwner, cfgAdmin, cfgDefaultPage, cfgMaxPage,
              store, fault, callReq, callResp, callTrace, callAuth>>
keyVars == <<rwWriter, rwReaders, mapBusy, tpc, tkey, vlocal, vres, vposs, vmustFail>>
fnVars == <<fnArg, fnRet>>
srvVars == <<ctxDone, srvState>>
updVars == <<uStore, upd, updCalls, updOverlap>>
restVars == <<fnVars, stream, srvVars, updVars>>
vars == <<batchVars, gateVars, callVars, keyVars, restVars>>

(***************************************************************************)
(* Bounds                                                                  *)
(***************************************************************************)
\* s.config.MaxBatchSize, a configuration value (Validate requires > 0)
MaxBatchSize == 3

\* how far the wall clock runs
MaxTime == 2

\* how many times the same request is submitted
MaxSubmits == 2

\* how many update_content calls are made
MaxUpdates == 2

None == "none"

(***************************************************************************)
(* Strings                                                                 *)
(***************************************************************************)
\* strings.HasPrefix
HasPrefix(s, p) == Len(s) >= Len(p) /\ SubSeq(s, 1, Len(p)) = p

\* strings.TrimPrefix
TrimPrefix(s, p) == IF HasPrefix(s, p) THEN SubSeq(s, Len(p) + 1, Len(s)) ELSE s

(***************************************************************************)
(* Errors                                                                  *)
(***************************************************************************)
\* mcperrors.NewValidationError(field, err)
NewValidationError(field, msg) ==
    [kind |-> "error", category |-> "validation", field |-> field, msg |-> msg]

\* a nil error / no response yet
NoError == [kind |-> "none"]

(***************************************************************************)
(* Batch inputs                                                            *)
(***************************************************************************)
\* values a JSON "owner_id"/"tenant_id"/content id can take: absent, a
\* string that is no UUID, a UUID
UUIDs == {"u1", "u2"}
IdValues == {None, "not-a-uuid"} \cup UUIDs

\* parseUUID: (uuid, err); err for a non-string (absent) or an unparsable one
parseUUIDFails(v) == v \notin UUIDs

\* the "data" of an upload item: missing, valid base64, invalid base64, a URL
DataValues == {"", "QQ==", "!!", "http://h/f"}
NameValues == {"", "a"}

\* one element of "items": not an object, or an object with name and data
UploadItems ==
    {[obj |-> FALSE, name |-> "", data |-> ""]}
    \cup {[obj |-> TRUE, name |-> n, data |-> d] : n \in NameValues, d \in DataValues}

SeqsUpTo(S, n) == UNION {[1..k -> S] : k \in 0..n}

\* arguments of batch_upload
\* "shape" is what the JSON value under "items" is: absent, not an array, an array
UploadArgs ==
    {[json |-> FALSE, owner_id |-> None, tenant_id |-> None, shape |-> "absent", items |-> <<>>]}
    \cup {[json |-> TRUE, owner_id |-> o, tenant_id |-> None, shape |-> "array", items |-> <<>>] :
            o \in {None, "not-a-uuid"}}
    \cup {[json |-> TRUE, owner_id |-> "u1", tenant_id |-> "not-a-uuid", shape |-> "array",
            items |-> <<>>]}
    \cup {[json |-> TRUE, owner_id |-> "u1", tenant_id |-> t, shape |-> sh, items |-> <<>>] :
            t \in {None, "u2"}, sh \in {"absent", "not-an-array"}}
    \cup {[json |-> TRUE, owner_id |-> "u1", tenant_id |-> None, shape |-> "array", items |-> i] :
            i \in SeqsUpTo(UploadItems, MaxBatchSize + 1)}

\* arguments of batch_get_details
DetailsArgs ==
    {[json |-> FALSE, shape |-> "absent", content_ids |-> <<>>]}
    \cup {[json |-> TRUE, shape |-> sh, content_ids |-> <<>>] : sh \in {"absent", "not-an-array"}}
    \cup {[json |-> TRUE, shape |-> "array", content_ids |-> i] :
            i \in SeqsUpTo(IdValues, MaxBatchSize + 1)}

\* the number of contents the backend holds at most
MaxContents == Cardinality(UUIDs)

\* which key was validated for a call, at the transport and in the middleware
Validated(gate, middleware) == [gate |-> gate, middleware |-> middleware]

\* no call has been made
CallIdle ==
    /\ callReq = NoError
    /\ callResp = NoError
    /\ callTrace = <<>>
    /\ callAuth = Validated("", "")

\* the server of DefaultConfig in front of an empty backend
CallInit ==
    /\ cfgMode = "stdio"
    /\ cfgResources = TRUE
    /\ cfgRequireOwner = TRUE
    /\ cfgAdmin = FALSE
    /\ cfgDefaultPage = 1
    /\ cfgMaxPage = MaxContents
    /\ store = <<>>
    /\ fault = ""
    /\ CallIdle

\* no goroutine is inside the authenticator
KeyInit ==
    /\ rwWriter = ""
    /\ rwReaders = {}
    /\ mapBusy = FALSE
    /\ tpc = [t \in {"adder", "remover", "validator"} |-> "idle"]
    /\ tkey = [t \in {"adder", "remover", "validator"} |-> ""]
    /\ vlocal = NoError
    /\ vres = NoError
    /\ vposs = {}
    /\ vmustFail = FALSE

\* no function has been given an input
FnInit ==
    /\ fnArg = [kind |-> "none"]
    /\ fnRet = [kind |-> "none"]

\* no stream is open
StreamInit == stream = [open |-> FALSE, key |-> ""]

\* Serve has started the HTTP server and waits in its select
ServeInit ==
    /\ ctxDone = FALSE
    /\ srvState = "serving"

\* the goroutines that run handleUpdateContent, one for each call in progress
Updaters == {"h1", "h2"}

\* the content the calls are about, as stored before any of them
StoredContent ==
    [ID |-> "u1", Name |-> "a", Description |-> "d", Tags |-> <<>>, CustomMetadata |-> ""]

\* a goroutine that has no call
IdleUpdater ==
    [pc |-> "idle",
     args |-> [content_id |-> "", name |-> "", description |-> "", tags |-> <<>>, metadata |-> ""],
     content |-> [Name |-> "", Description |-> ""],
     ret |-> NoError,
     before |-> StoredContent,
     alone |-> TRUE]

\* no update_content call has been made
UpdInit ==
    /\ uStore = StoredContent
    /\ upd = [u \in Updaters |-> IdleUpdater]
    /\ updCalls = 0
    /\ updOverlap = FALSE

RestInit == FnInit /\ StreamInit /\ ServeInit /\ UpdInit

\* the zero value of a BatchUploadResult (a slot of make([]BatchUploadResult, n))
ZeroUploadResult == [Index |-> 0, Success |-> FALSE, ContentID |-> "", Error |-> ""]

\* the zero value of a detailResult
ZeroDetailResult == [Index |-> 0, Details |-> <<>>, Error |-> ""]

Min(S) == CHOOSE x \in S : \A y \in S : x <= y

\* the first position at which sub occurs in str, 0 if none
IndexOf(str, sub) ==
    LET hits == {i \in 1..Len(str) : i + Len(sub) - 1 <= Len(str)
                                     /\ SubSeq(str, i, i + Len(sub) - 1) = sub}
    IN  IF hits = {} THEN 0 ELSE Min(hits)

\* len(array) > s.config.MaxBatchSize, with an off-by-one variant
ExceedsMaxOffByOne(n) == n > MaxBatchSize + 1

ExceedsMax(n) == n > MaxBatchSize

\* the required-field checks of one upload item, without the check of "data"
UploadItemErrorNoDataCheck(item, i) ==
    IF ~item.obj THEN NewValidationError(<<"items", i>>, "must be an object")
    ELSE IF item.name = "" THEN NewValidationError(<<"items", i, "name">>, "name is required")
    ELSE NoError

(***************************************************************************)
(* handleBatchUpload: the checks made before any goroutine is started.     *)
(* The value is the error returned, or None when the request passes.       *)
(***************************************************************************)
UploadItemError(item, i) ==
    IF ~item.obj THEN NewValidationError(<<"items", i>>, "must be an object")
    ELSE IF item.name = "" THEN NewValidationError(<<"items", i, "name">>, "name is required")
    ELSE IF item.data = "" THEN NewValidationError(<<"items", i, "data">>, "data is required")
    ELSE NoError

UploadValidate(args) ==
    IF ~args.json THEN NewValidationError(<<"arguments">>, "json")
    ELSE IF parseUUIDFails(args.owner_id) THEN NewValidationError(<<"owner_id">>, "uuid")
    ELSE IF args.tenant_id # None /\ parseUUIDFails(args.tenant_id)
        THEN NewValidationError(<<"tenant_id">>, "uuid")
    ELSE IF args.shape = "absent"
        THEN NewValidationError(<<"items">>, "items array is required")
    ELSE IF args.shape # "array"
        THEN NewValidationError(<<"items">>, "items must be an array")
    ELSE IF Len(args.items) = 0
        THEN NewValidationError(<<"items">>, "items array cannot be empty")
    ELSE IF ExceedsMax(Len(args.items))
        THEN NewValidationError(<<"items">>, "batch size exceeds maximum")
    ELSE LET bad == {i \in 0..(Len(args.items) - 1) :
                        UploadItemError(args.items[i + 1], i).kind = "error"}
         IN  IF bad # {} THEN UploadItemError(args.items[Min(bad) + 1], Min(bad)) ELSE NoError

(***************************************************************************)
(* handleBatchGetDetails: the checks made before any goroutine is started. *)
(***************************************************************************)
DetailsValidate(args) ==
    IF ~args.json THEN NewValidationError(<<"arguments">>, "json")
    ELSE IF args.shape = "absent"
        THEN NewValidationError(<<"content_ids">>, "content_ids array is required")
    ELSE IF args.shape # "array"
        THEN NewValidationError(<<"content_ids">>, "content_ids must be an array")
    ELSE IF Len(args.content_ids) = 0
        THEN NewValidationError(<<"content_ids">>, "content_ids array cannot be empty")
    ELSE IF ExceedsMax(Len(args.content_ids))
        THEN NewValidationError(<<"content_ids">>, "batch size exceeds maximum")
    ELSE LET bad == {i \in 0..(Len(args.content_ids) - 1) :
                        parseUUIDFails(args.content_ids[i + 1])}
         IN  IF bad # {} THEN NewValidationError(<<"content_ids", Min(bad)>>, "uuid")
             ELSE NoError

\* the items of the call in hand, and how many there are
BatchItems == IF bTool = "batch_upload" THEN bArgs.items ELSE bArgs.content_ids
BatchN == Len(BatchItems)
Units == 0..(BatchN - 1)

\* results := make([]T, len(items))
MakeResults(tool, n) ==
    [i \in 0..(n - 1) |-> IF tool = "batch_upload" THEN ZeroUploadResult ELSE ZeroDetailResult]

\* a handler is called: argument checks, then the results slice is allocated
BatchStart(tool, args, err) ==
    /\ bpc = "idle"
    /\ bTool' = tool
    /\ bArgs' = args
    /\ IF err.kind = "error"
       THEN /\ bResp' = err
            /\ bpc' = "returned"
            /\ UNCHANGED <<results, upc, ulocal>>
       ELSE /\ bResp' = NoError
            /\ bpc' = "spawn"
            /\ LET n == Len(IF tool = "batch_upload" THEN args.items ELSE args.content_ids)
               IN  /\ results' = MakeResults(tool, n)
                   /\ upc' = [i \in 0..(n - 1) |-> "unstarted"]
                   /\ ulocal' = MakeResults(tool, n)
    /\ UNCHANGED <<bSpawn, wg, mu, svcCalls>>
    /\ UNCHANGED <<gateVars, callVars, keyVars, restVars>>

CallBatchUpload ==
    /\ bpc = "idle"
    /\ \E args \in UploadArgs : BatchStart("batch_upload", args, UploadValidate(args))

CallBatchGetDetails ==
    /\ bpc = "idle"
    /\ \E args \in DetailsArgs : BatchStart("batch_get_details", args, DetailsValidate(args))

\* for i, item := range items { wg.Add(1); go func(index, item) {...}(i, item) }
Spawn ==
    /\ bpc = "spawn"
    /\ wg' = wg + 1
    /\ upc' = [upc EXCEPT ![bSpawn] = IF bTool = "batch_upload" THEN "decode" ELSE "call"]
    /\ bSpawn' = bSpawn + 1
    /\ bpc' = IF bSpawn + 1 = BatchN THEN "wait" ELSE "spawn"
    /\ UNCHANGED <<bTool, bArgs, results, ulocal, mu, svcCalls, bResp>>
    /\ UNCHANGED <<gateVars, callVars, keyVars, restVars>>

\* s.decodeData(uploadItem.Data): base64 decodes or not; a URL is fetched and
\* the fetch succeeds or fails
DecodeOutcomes(data) ==
    IF HasPrefix(data, "http://") \/ HasPrefix(data, "https://") THEN {TRUE, FALSE}
    ELSE IF data = "QQ==" THEN {TRUE}
    ELSE {FALSE}

DecodeFailure(index) ==
    [Index |-> index, Success |-> FALSE, ContentID |-> "", Error |-> "failed to decode data"]

Decode(i) ==
    /\ upc[i] = "decode"
    /\ \E ok \in DecodeOutcomes(BatchItems[i + 1].data) :
          IF ok
          THEN /\ upc' = [upc EXCEPT ![i] = "call"]
               /\ UNCHANGED ulocal
          ELSE /\ upc' = [upc EXCEPT ![i] = "lock"]
               /\ ulocal' = [ulocal EXCEPT ![i] = DecodeFailure(i)]
    /\ UNCHANGED <<bTool, bArgs, bpc, bSpawn, results, wg, mu, svcCalls, bResp>>
    /\ UNCHANGED <<gateVars, callVars, keyVars, restVars>>

\* the id the backend gives the content created for item `index`
NewContentID(index) == <<"content", index>>

\* the value a goroutine builds after its backend call returned (ok or err)
CallResult(tool, index, item, ok) ==
    IF tool = "batch_upload"
    THEN IF ok
         THEN [Index |-> index, Success |-> TRUE, ContentID |-> NewContentID(index), Error |-> ""]
         ELSE [Index |-> index, Success |-> FALSE, ContentID |-> "", Error |-> "upload failed"]
    ELSE IF ok
         THEN [Index |-> index, Details |-> <<"details", item>>, Error |-> ""]
         ELSE [Index |-> index, Details |-> <<>>, Error |-> "failed to get details"]

\* s.service.UploadContent / s.service.GetContentDetails: the backend call of
\* one item, which succeeds or fails
ServiceCall(i) ==
    /\ upc[i] = "call"
    /\ svcCalls' = svcCalls \cup {i}
    /\ \E ok \in BOOLEAN :
          ulocal' = [ulocal EXCEPT ![i] = CallResult(bTool, i, BatchItems[i + 1], ok)]
    /\ upc' = [upc EXCEPT ![i] = "lock"]
    /\ UNCHANGED <<bTool, bArgs, bpc, bSpawn, results, wg, mu, bResp>>
    /\ UNCHANGED <<gateVars, callVars, keyVars, restVars>>

Unlocked == -1

\* mu.Lock()
Lock(i) ==
    /\ upc[i] = "lock"
    /\ mu = Unlocked
    /\ mu' = i
    /\ upc' = [upc EXCEPT ![i] = "store"]
    /\ UNCHANGED <<bTool, bArgs, bpc, bSpawn, results, ulocal, wg, svcCalls, bResp>>
    /\ UNCHANGED <<gateVars, callVars, keyVars, restVars>>

\* the slot a goroutine stores into, with a variant that ignores the index
StoreSlotFirst(index) == 0

StoreSlot(index) == index

\* results[index] = ...; mu.Unlock(); return, running the deferred wg.Done()
Store(i) ==
    /\ upc[i] = "store"
    /\ mu = i
    /\ results' = [results EXCEPT ![StoreSlot(i)] = ulocal[i]]
    /\ mu' = Unlocked
    /\ wg' = wg - 1
    /\ upc' = [upc EXCEPT ![i] = "done"]
    /\ UNCHANGED <<bTool, bArgs, bpc, bSpawn, ulocal, svcCalls, bResp>>
    /\ UNCHANGED <<gateVars, callVars, keyVars, restVars>>

\* whether a result slot reports success
SlotOk(tool, r) == IF tool = "batch_upload" THEN r.Success ELSE r.Error = ""

\* for _, result := range results { if ok { successful++ } else { failed++ } },
\* from slot i on; the value is <<successful, failed>>
RECURSIVE CountLoop(_, _, _, _, _)
CountLoop(tool, res, i, successful, failed) ==
    IF i \notin DOMAIN res THEN <<successful, failed>>
    ELSE IF SlotOk(tool, res[i]) THEN CountLoop(tool, res, i + 1, successful + 1, failed)
    ELSE CountLoop(tool, res, i + 1, successful, failed + 1)

\* the response map with a count loop that starts one slot late
BatchResponseSkipFirst(tool, res) ==
    LET counts == CountLoop(tool, res, 1, 0, 0)
    IN  [kind |-> "ok", results |-> res, total |-> Cardinality(DOMAIN res),
         successful |-> counts[1], failed |-> counts[2]]

\* the response map: results, total, successful, failed
BatchResponse(tool, res) ==
    LET counts == CountLoop(tool, res, 0, 0, 0)
    IN  [kind |-> "ok", results |-> res, total |-> Cardinality(DOMAIN res),
         successful |-> counts[1], failed |-> counts[2]]

\* a join that gives up as soon as one goroutine has stored a failure
WaitDoneFailFast ==
    \/ wg = 0
    \/ \E i \in DOMAIN upc : upc[i] = "done" /\ ~SlotOk(bTool, results[i])

\* what wg.Wait() waits for
WaitDone == wg = 0

\* wg.Wait(), then count and return
WaitAndReturn ==
    /\ bpc = "wait"
    /\ WaitDone
    /\ bResp' = BatchResponse(bTool, results)
    /\ bpc' = "returned"
    /\ UNCHANGED <<bTool, bArgs, bSpawn, results, upc, ulocal, wg, mu, svcCalls>>
    /\ UNCHANGED <<gateVars, callVars, keyVars, restVars>>

BatchInit ==
    /\ bTool = None
    /\ bArgs = NoError
    /\ bpc = "idle"
    /\ bSpawn = 0
    /\ results = <<>>
    /\ upc = <<>>
    /\ ulocal = <<>>
    /\ wg = 0
    /\ mu = Unlocked
    /\ svcCalls = {}
    /\ bResp = NoError

GateIdle ==
    /\ cfgHost = "localhost"
    /\ cfgAuth = FALSE
    /\ keys = <<>>
    /\ now = 0
    /\ httpReq = NoError
    /\ httpResp = NoError

BatchSpecInit == BatchInit /\ GateIdle /\ CallInit /\ KeyInit /\ RestInit

BatchNext ==
    \/ CallBatchUpload
    \/ CallBatchGetDetails
    \/ Spawn
    \/ \E i \in DOMAIN upc : Decode(i)
    \/ \E i \in DOMAIN upc : ServiceCall(i)
    \/ \E i \in DOMAIN upc : Lock(i)
    \/ \E i \in DOMAIN upc : Store(i)
    \/ WaitAndReturn

BatchSpec == BatchSpecInit /\ [][BatchNext]_vars

\* the steps of the goroutine started for item i
UnitStep(i) ==
    /\ i \in DOMAIN upc
    /\ (Decode(i) \/ ServiceCall(i) \/ Lock(i) \/ Store(i))

\* the batch handlers when the scheduler lets every goroutine that can run
\* run, and every decode and backend call returns
FairBatchSpec ==
    /\ BatchSpecInit
    /\ [][BatchNext]_vars
    /\ WF_vars(Spawn)
    /\ \A i \in 0..MaxBatchSize : WF_vars(UnitStep(i))
    /\ WF_vars(WaitAndReturn)

(***************************************************************************)
(* APIKeyAuthenticator                                                     *)
(***************************************************************************)
KeyNames == {"k1", "k2"}

NoExpiry == -1

\* the KeyInfo registered for a key: k1 never expires, k2 expires at time 1
KeyInfoOf(k) ==
    IF k = "k1" THEN [Key |-> "k1", OwnerID |-> "u1", TenantID |-> None, ExpiresAt |-> NoExpiry]
    ELSE [Key |-> k, OwnerID |-> "u2", TenantID |-> "t1", ExpiresAt |-> 1]

\* a Validate that does not look at ExpiresAt
ValidateNoExpiry(registered, clock, apiKey) ==
    IF apiKey \notin DOMAIN registered THEN "invalid or missing API key" ELSE ""

\* (a *APIKeyAuthenticator) Validate: the error, "" for nil
Validate(registered, clock, apiKey) ==
    IF apiKey \notin DOMAIN registered THEN "invalid or missing API key"
    ELSE IF registered[apiKey].ExpiresAt # NoExpiry /\ clock > registered[apiKey].ExpiresAt
        THEN "API key has expired"
    ELSE ""

GateIsIdle == httpReq.kind = "none" /\ callReq.kind = "none"

\* (a *APIKeyAuthenticator) AddKey
AddKey(k) ==
    /\ GateIsIdle
    /\ k \notin DOMAIN keys
    /\ keys' = [x \in DOMAIN keys \cup {k} |-> IF x = k THEN KeyInfoOf(k) ELSE keys[x]]
    /\ UNCHANGED <<cfgHost, cfgAuth, now, httpReq, httpResp>>
    /\ UNCHANGED <<batchVars, callVars, keyVars, restVars>>

\* (a *APIKeyAuthenticator) RemoveKey
RemoveKey(k) ==
    /\ GateIsIdle
    /\ k \in DOMAIN keys
    /\ keys' = [x \in DOMAIN keys \ {k} |-> keys[x]]
    /\ UNCHANGED <<cfgHost, cfgAuth, now, httpReq, httpResp>>
    /\ UNCHANGED <<batchVars, callVars, keyVars, restVars>>

\* time passes
Tick ==
    /\ GateIsIdle
    /\ now < MaxTime
    /\ now' = now + 1
    /\ UNCHANGED <<cfgHost, cfgAuth, keys, httpReq, httpResp>>
    /\ UNCHANGED <<batchVars, callVars, keyVars, restVars>>

(***************************************************************************)
(* serveSSE: the HTTP mux in front of the SDK's SSE handler                *)
(***************************************************************************)
Hosts == {"localhost", "127.0.0.1", "0.0.0.0"}
Paths == {"/mcp", "/health", "/ready"}
Origins == {"", "http://localhost", "http://localhost:3000", "http://127.0.0.1:8080",
            "https://localhost", "http://evil.example", "http://localhost.evil.example"}
VersionHeaders == {"", "2024-11-05", "2025-03-26", "2025-06-18", "1999-01-01"}
SessionHeaders == {"", "s1", "s2"}

\* the X-API-Key and Authorization headers of a request
CredentialHeaders ==
    {<<"", "">>, <<"k1", "">>, <<"k2", "">>, <<"kx", "">>, <<"", "k1">>,
     <<"", "Bearer k1">>, <<"", "Bearer k2">>, <<"kx", "Bearer k1">>}

Requests ==
    {[kind |-> "http", path |-> p, origin |-> o, version |-> v, session |-> sid,
      xApiKey |-> c[1], authorization |-> c[2]] :
        p \in Paths, o \in Origins, v \in VersionHeaders, sid \in SessionHeaders,
        c \in CredentialHeaders}

\* extractAPIKeyFromHeader
extractAPIKeyFromHeader(r) ==
    IF r.xApiKey # "" THEN r.xApiKey
    ELSE IF r.authorization # ""
        THEN (IF HasPrefix(r.authorization, "Bearer ")
              THEN TrimPrefix(r.authorization, "Bearer ")
              ELSE r.authorization)
    ELSE ""

\* the origin check: a non-empty Origin on a localhost server must start with
\* http://localhost or http://127.0.0.1
OriginRejected(host, origin) ==
    /\ origin # ""
    /\ host = "localhost" \/ host = "127.0.0.1"
    /\ ~HasPrefix(origin, "http://localhost")
    /\ ~HasPrefix(origin, "http://127.0.0.1")

\* the default written into protocolVersion when the header is empty, and
\* a variant that takes the first entry of the list instead
DefaultProtocolVersionFirst == "2024-11-05"

DefaultProtocolVersion == "2025-03-26"

\* supportedVersions, and a variant without the SDK baseline
supportedVersionsNewer == <<"2025-03-26", "2025-06-18">>

supportedVersions == <<"2024-11-05", "2025-03-26", "2025-06-18">>

\* protocolVersion after the default is applied
NegotiatedVersion(r) == IF r.version = "" THEN DefaultProtocolVersion ELSE r.version

\* the validVersion loop
ValidVersion(v) == \E i \in 1..Len(supportedVersions) : supportedVersions[i] = v

\* the credential check made when authentication is enabled: the status and
\* body of the rejection, or status 0 when the request passes
CredentialCheck(auth, registered, clock, r) ==
    IF ~auth THEN [status |-> 0, body |-> ""]
    ELSE IF extractAPIKeyFromHeader(r) = "" THEN [status |-> 401, body |-> "API key required"]
    ELSE IF Validate(registered, clock, extractAPIKeyFromHeader(r)) # ""
        THEN [status |-> 401, body |-> "Invalid API key"]
    ELSE [status |-> 0, body |-> ""]

\* an answer written by the mux handler itself (http.Error or a health reply)
Answer(status, body, version) ==
    [kind |-> "http", status |-> status, body |-> body, handed |-> FALSE,
     protocolVersion |-> version, ctxSession |-> "", ctxApiKey |-> ""]

\* a hand-over that leaves the session id out of the request context
HandOverNoSession(r, version, apiKey) ==
    [kind |-> "http", status |-> 0, body |-> "", handed |-> TRUE,
     protocolVersion |-> version, ctxSession |-> "", ctxApiKey |-> apiKey]

\* the request goes to sseHandler.ServeHTTP with this context; the status is
\* the SDK's to choose (0 here)
HandOver(r, version, apiKey) ==
    [kind |-> "http", status |-> 0, body |-> "", handed |-> TRUE,
     protocolVersion |-> version, ctxSession |-> r.session, ctxApiKey |-> apiKey]

\* the order of the checks of the /mcp handler, and a variant that checks
\* the credential before the protocol version
McpAnswerCredentialFirst(host, auth, registered, clock, r) ==
    IF OriginRejected(host, r.origin) THEN Answer(403, "Invalid origin", "")
    ELSE IF CredentialCheck(auth, registered, clock, r).status # 0
        THEN Answer(CredentialCheck(auth, registered, clock, r).status,
                    CredentialCheck(auth, registered, clock, r).body, NegotiatedVersion(r))
    ELSE IF ~ValidVersion(NegotiatedVersion(r))
        THEN Answer(400, "Unsupported MCP protocol version", NegotiatedVersion(r))
    ELSE HandOver(r, NegotiatedVersion(r), IF auth THEN extractAPIKeyFromHeader(r) ELSE "")

\* mux.HandleFunc("/mcp", ...)
McpAnswer(host, auth, registered, clock, r) ==
    IF OriginRejected(host, r.origin) THEN Answer(403, "Invalid origin", "")
    ELSE IF ~ValidVersion(NegotiatedVersion(r))
        THEN Answer(400, "Unsupported MCP protocol version", NegotiatedVersion(r))
    ELSE IF CredentialCheck(auth, registered, clock, r).status # 0
        THEN Answer(CredentialCheck(auth, registered, clock, r).status,
                    CredentialCheck(auth, registered, clock, r).body, NegotiatedVersion(r))
    ELSE HandOver(r, NegotiatedVersion(r), IF auth THEN extractAPIKeyFromHeader(r) ELSE "")

ServeMcp ==
    /\ GateIsIdle
    /\ \E r \in Requests :
          /\ r.path = "/mcp"
          /\ httpReq' = r
          /\ httpResp' = McpAnswer(cfgHost, cfgAuth, keys, now, r)
    /\ UNCHANGED <<cfgHost, cfgAuth, keys, now>>
    /\ UNCHANGED <<batchVars, callVars, keyVars, restVars>>

\* a /health handler placed behind the checks of the /mcp handler
ServeHealthGated ==
    /\ GateIsIdle
    /\ \E r \in Requests :
          /\ r.path = "/health"
          /\ httpReq' = r
          /\ httpResp' = IF McpAnswer(cfgHost, cfgAuth, keys, now, r).handed
                            THEN Answer(200, "OK", "")
                            ELSE McpAnswer(cfgHost, cfgAuth, keys, now, r)
    /\ UNCHANGED <<cfgHost, cfgAuth, keys, now>>
    /\ UNCHANGED <<batchVars, callVars, keyVars, restVars>>

\* mux.HandleFunc("/health", ...)
ServeHealth ==
    /\ GateIsIdle
    /\ \E r \in Requests :
          /\ r.path = "/health"
          /\ httpReq' = r
          /\ httpResp' = Answer(200, "OK", "")
    /\ UNCHANGED <<cfgHost, cfgAuth, keys, now>>
    /\ UNCHANGED <<batchVars, callVars, keyVars, restVars>>

\* mux.HandleFunc("/ready", ...)
ServeReady ==
    /\ GateIsIdle
    /\ \E r \in Requests :
          /\ r.path = "/ready"
          /\ httpReq' = r
          /\ httpResp' = Answer(200, "READY", "")
    /\ UNCHANGED <<cfgHost, cfgAuth, keys, now>>
    /\ UNCHANGED <<batchVars, callVars, keyVars, restVars>>

\* the exchange is over; the server takes the next request
NextRequest ==
    /\ ~GateIsIdle
    /\ httpReq' = NoError
    /\ httpResp' = NoError
    /\ UNCHANGED <<cfgHost, cfgAuth, keys, now>>
    /\ UNCHANGED <<batchVars, callVars, keyVars, restVars>>

GateInit ==
    /\ cfgHost \in Hosts
    /\ cfgAuth \in BOOLEAN
    /\ keys = <<>>
    /\ now = 0
    /\ httpReq = NoError
    /\ httpResp = NoError

GateSpecInit == GateInit /\ BatchInit /\ CallInit /\ KeyInit /\ RestInit

GateNext ==
    \/ \E k \in KeyNames : AddKey(k)
    \/ \E k \in KeyNames : RemoveKey(k)
    \/ Tick
    \/ ServeMcp
    \/ ServeHealth
    \/ ServeReady
    \/ NextRequest

GateSpec == GateSpecInit /\ [][GateNext]_vars

(***************************************************************************)
(* Error categories (package mcperrors)                                    *)
(***************************************************************************)
\* an error that wraps none of the sentinel errors
Uncategorised == ""

\* fmt.Errorf("%v: %w", err, ErrX) and the other constructors that wrap a
\* sentinel: the message and the category the sentinel stands for
Categorised(msg, category) ==
    [kind |-> "error", category |-> category, field |-> <<>>, msg |-> msg]

\* an error made by fmt.Errorf without a sentinel, or passed on as it came
PlainError(msg) == Categorised(msg, Uncategorised)

\* mcperrors.NewInternalError
NewInternalError(msg) == Categorised(msg, "internal")

UpperLetters == "ABCDEFGHIJKLMNOPQRSTUVWXYZ"
LowerLetters == "abcdefghijklmnopqrstuvwxyz"

\* the lower-case letter of each upper-case letter
LowerOf ==
    [c \in {SubSeq(UpperLetters, i, i) : i \in 1..Len(UpperLetters)} |->
        LET at == CHOOSE i \in 1..Len(UpperLetters) : SubSeq(UpperLetters, i, i) = c
        IN  SubSeq(LowerLetters, at, at)]

\* toLower of one byte
toLower(c) == IF c \in DOMAIN LowerOf THEN LowerOf[c] ELSE c

\* matchAt(s, substr, pos), pos counted from 0
matchAt(s, substr, pos) ==
    \A i \in 1..Len(substr) :
        \/ SubSeq(s, pos + i, pos + i) = SubSeq(substr, i, i)
        \/ toLower(SubSeq(s, pos + i, pos + i)) = toLower(SubSeq(substr, i, i))

findSubstring(s, substr) == \E pos \in 0..(Len(s) - Len(substr)) : matchAt(s, substr, pos)

contains(s, substr) == Len(s) >= Len(substr) /\ (s = substr \/ findSubstring(s, substr))

\* the text of the sentinel error of a category
SentinelText(category) ==
    IF category = "not-found" THEN "not found"
    ELSE IF category = "validation" THEN "validation error"
    ELSE IF category = "storage" THEN "storage error"
    ELSE IF category = "internal" THEN "internal error"
    ELSE category

\* fmt.Errorf("%v: %w", err, ErrX)
Wrap(msg, category) == Categorised(msg \o ": " \o SentinelText(category), category)

\* a MapError that looks for a validation error first
MapErrorValidationFirst(msg) ==
    IF contains(msg, "validation") \/ contains(msg, "invalid") THEN Wrap(msg, "validation")
    ELSE IF contains(msg, "not found") THEN Wrap(msg, "not-found")
    ELSE IF contains(msg, "storage") \/ contains(msg, "blob") \/ contains(msg, "s3")
        THEN Wrap(msg, "storage")
    ELSE IF contains(msg, "unauthorized") \/ contains(msg, "authentication")
        THEN Wrap(msg, "unauthorized")
    ELSE IF contains(msg, "forbidden") \/ contains(msg, "permission")
        THEN Wrap(msg, "forbidden")
    ELSE PlainError(msg)

\* MapError of a non-nil error with message msg
MapError(msg) ==
    IF contains(msg, "not found") THEN Wrap(msg, "not-found")
    ELSE IF contains(msg, "validation") \/ contains(msg, "invalid") THEN Wrap(msg, "validation")
    ELSE IF contains(msg, "storage") \/ contains(msg, "blob") \/ contains(msg, "s3")
        THEN Wrap(msg, "storage")
    ELSE IF contains(msg, "unauthorized") \/ contains(msg, "authentication")
        THEN Wrap(msg, "unauthorized")
    ELSE IF contains(msg, "forbidden") \/ contains(msg, "permission")
        THEN Wrap(msg, "forbidden")
    ELSE PlainError(msg)

(***************************************************************************)
(* The backend (simplecontent.Service and admin.AdminService), as far as   *)
(* the handlers see it: a list of contents and a fault that makes every    *)
(* call fail with the fault's message                                      *)
(***************************************************************************)
\* error texts of a failing backend; "" is a healthy backend
BackendFaults == {"", "S3 bucket unreachable", "connection refused"}

\* the outcome (value, err) of a backend call
SvcOk(val) == [err |-> "", val |-> val]
SvcErr(msg) == [err |-> msg, val |-> <<>>]

\* the position of the content with this id
ContentAt(st, id) == CHOOSE i \in 1..Len(st) : st[i].ID = id

HasContent(st, id) == \E i \in 1..Len(st) : st[i].ID = id

\* the contents of one owner, in order
RECURSIVE SelectOwner(_, _)
SelectOwner(st, owner) ==
    IF st = <<>> THEN <<>>
    ELSE IF Head(st).OwnerID = owner THEN <<Head(st)>> \o SelectOwner(Tail(st), owner)
    ELSE SelectOwner(Tail(st), owner)

RECURSIVE SelectStatus(_, _)
SelectStatus(st, status) ==
    IF st = <<>> THEN <<>>
    ELSE IF Head(st).Status = status THEN <<Head(st)>> \o SelectStatus(Tail(st), status)
    ELSE SelectStatus(Tail(st), status)

\* s.service.GetContent
SvcGetContent(st, f, id) ==
    IF f # "" THEN SvcErr(f)
    ELSE IF ~HasContent(st, id) THEN SvcErr("content not found")
    ELSE SvcOk(st[ContentAt(st, id)])

\* s.service.GetContentDetails
SvcGetContentDetails(st, f, id, withUpload) ==
    IF f # "" THEN SvcErr(f)
    ELSE IF ~HasContent(st, id) THEN SvcErr("content not found")
    ELSE SvcOk([ID |-> id, Download |-> <<"download", id>>,
                Upload |-> IF withUpload THEN <<"upload", id>> ELSE <<>>,
                FileName |-> st[ContentAt(st, id)].Name])

\* s.service.ListContent: the contents of one owner
SvcListContent(st, f, owner) ==
    IF f # "" THEN SvcErr(f) ELSE SvcOk(SelectOwner(st, owner))

\* the window [start, start + count) of a list, cut at its ends
Window(list, start, count) ==
    SubSeq(list, Min({start, Len(list)}) + 1, Min({start + count, Len(list)}))

\* s.adminService.ListAllContents: filters and pagination are the backend's
ListAllFiltered(st, filters) ==
    LET byOwner == IF filters.owner = "" THEN st ELSE SelectOwner(st, filters.owner)
    IN  IF filters.status = "" THEN byOwner ELSE SelectStatus(byOwner, filters.status)

SvcListAllContents(st, f, filters) ==
    IF f # "" THEN SvcErr(f)
    ELSE IF filters.limit < 0 \/ filters.offset < 0 THEN SvcErr("invalid pagination")
    ELSE SvcOk(Window(ListAllFiltered(st, filters), filters.offset, filters.limit))

\* s.service.GetContentByStatus
SvcGetContentByStatus(st, f, status) ==
    IF f # "" THEN SvcErr(f) ELSE SvcOk(SelectStatus(st, status))

\* the id the backend gives a new content
NewUUID(st) == CHOOSE id \in UUIDs : ~HasContent(st, id)

\* s.service.UploadContent: the new content, and the store with it
UploadedContent(st, owner, name) ==
    [ID |-> NewUUID(st), OwnerID |-> owner, Name |-> name, Status |-> "uploaded"]

SvcUploadContent(st, f, owner, name) ==
    IF f # "" THEN SvcErr(f) ELSE SvcOk(UploadedContent(st, owner, name))

\* s.service.DeleteContent
RECURSIVE Without(_, _)
Without(st, id) ==
    IF st = <<>> THEN <<>>
    ELSE IF Head(st).ID = id THEN Without(Tail(st), id)
    ELSE <<Head(st)>> \o Without(Tail(st), id)

SvcDeleteContent(st, f, id) ==
    IF f # "" THEN SvcErr(f)
    ELSE IF ~HasContent(st, id) THEN SvcErr("content not found")
    ELSE SvcOk(<<>>)

\* an entry of the record of backend calls made during one call
BackendCall(op, arg) == [op |-> op, arg |-> arg]

(***************************************************************************)
(* Tool handlers (handlers.go). A handler's outcome is what it returns,    *)
(* the backend calls it made, in order, and the backend's contents after.  *)
(***************************************************************************)
Outcome(resp, trace, st) == [resp |-> resp, trace |-> trace, store |-> st]

\* newTextResult(formatJSON(payload))
Result(payload) == [kind |-> "result", payload |-> payload]

\* a run-time panic of the handler (slice bounds out of range)
Panic == [kind |-> "panic"]

\* an optional integer argument: absent (or no number), or a number
IntArgs(values) == {[set |-> FALSE, v |-> 0]} \cup {[set |-> TRUE, v |-> n] : n \in values}

\* getIntOr
getIntOr(arg, defaultVal) == IF arg.set THEN arg.v ELSE defaultVal

\* arguments of get_content / delete_content
GetArgs ==
    {[json |-> FALSE, content_id |-> None]}
    \cup {[json |-> TRUE, content_id |-> c] : c \in IdValues}

\* arguments of get_content_details
GetDetailsArgs ==
    {[json |-> FALSE, content_id |-> None, include_upload_url |-> FALSE]}
    \cup {[json |-> TRUE, content_id |-> c, include_upload_url |-> u] :
            c \in IdValues, u \in BOOLEAN}

\* arguments of upload_content
UploadContentArgs ==
    {[json |-> FALSE, owner_id |-> None, name |-> "", data |-> ""]}
    \cup {[json |-> TRUE, owner_id |-> o, name |-> n, data |-> d] :
            o \in IdValues, n \in NameValues, d \in DataValues}

\* arguments of list_content
ListArgs ==
    {[json |-> FALSE, owner_id |-> None, status |-> "",
      limit |-> [set |-> FALSE, v |-> 0], offset |-> [set |-> FALSE, v |-> 0]]}
    \cup {[json |-> TRUE, owner_id |-> o, status |-> s, limit |-> l, offset |-> off] :
            o \in IdValues, s \in {"", "failed"},
            l \in IntArgs(-1..MaxContents), off \in IntArgs({-1, 1})}

\* arguments of search_content
SearchArgs ==
    {[json |-> FALSE, owner_id |-> None, query |-> "", status |-> <<>>,
      limit |-> [set |-> FALSE, v |-> 0], offset |-> [set |-> FALSE, v |-> 0]]}
    \cup {[json |-> TRUE, owner_id |-> o, query |-> q, status |-> s, limit |-> l, offset |-> off] :
            o \in IdValues, q \in {"", "A"}, s \in {<<>>, <<"failed">>},
            l \in IntArgs(-1..MaxContents), off \in IntArgs({-1, 1})}

\* the fields of a content that the handlers put in a result
ContentJSON(c) == [id |-> c.ID, owner_id |-> c.OwnerID, name |-> c.Name, status |-> c.Status]

RECURSIVE ContentsJSON(_)
ContentsJSON(list) ==
    IF list = <<>> THEN <<>> ELSE <<ContentJSON(Head(list))>> \o ContentsJSON(Tail(list))

\* decodeData: the error, or NoError when a reader was made; fetched is
\* whether a download from a URL went well
decodeData(data, fetched) ==
    IF data = "" THEN NewValidationError(<<"data">>, "must be a string")
    ELSE IF HasPrefix(data, "http://") \/ HasPrefix(data, "https://")
        THEN IF fetched THEN NoError ELSE NewInternalError("failed to download from URL")
    ELSE IF data = "QQ==" THEN NoError
    ELSE NewValidationError(<<"data">>, "invalid base64")

\* handleUploadContent
handleUploadContent(st, f, args, fetched) ==
    IF ~args.json THEN Outcome(NewValidationError(<<"arguments">>, "invalid JSON"), <<>>, st)
    ELSE IF parseUUIDFails(args.owner_id)
        THEN Outcome(NewValidationError(<<"owner_id">>, "not a UUID"), <<>>, st)
    ELSE IF args.name = "" THEN Outcome(NewValidationError(<<"name">>, "required"), <<>>, st)
    ELSE IF decodeData(args.data, fetched).kind = "error"
        THEN Outcome(decodeData(args.data, fetched), <<>>, st)
    ELSE
        LET up == SvcUploadContent(st, f, args.owner_id, args.name)
            upCall == BackendCall("UploadContent", args.owner_id)
        IN  IF up.err # "" THEN Outcome(MapError(up.err), <<upCall>>, st)
            ELSE
                LET stored == Append(st, up.val)
                    det == SvcGetContentDetails(stored, f, up.val.ID, FALSE)
                    calls == <<upCall, BackendCall("GetContentDetails", up.val.ID)>>
                IN  IF det.err # ""
                    THEN Outcome(Result([id |-> up.val.ID, status |-> up.val.Status,
                                         download_url |-> <<>>]), calls, stored)
                    ELSE Outcome(Result([id |-> up.val.ID, status |-> up.val.Status,
                                         download_url |-> det.val.Download]), calls, stored)

\* a get_content that answers from its arguments alone
handleGetContentNoRead(st, f, args) ==
    IF ~args.json THEN Outcome(NewValidationError(<<"arguments">>, "invalid JSON"), <<>>, st)
    ELSE IF parseUUIDFails(args.content_id)
        THEN Outcome(NewValidationError(<<"content_id">>, "not a UUID"), <<>>, st)
    ELSE Outcome(Result([id |-> args.content_id, owner_id |-> "", name |-> "", status |-> ""]),
                 <<>>, st)

\* handleGetContent
handleGetContent(st, f, args) ==
    IF ~args.json THEN Outcome(NewValidationError(<<"arguments">>, "invalid JSON"), <<>>, st)
    ELSE IF parseUUIDFails(args.content_id)
        THEN Outcome(NewValidationError(<<"content_id">>, "not a UUID"), <<>>, st)
    ELSE
        LET got == SvcGetContent(st, f, args.content_id)
            calls == <<BackendCall("GetContent", args.content_id)>>
        IN  IF got.err # "" THEN Outcome(MapError(got.err), calls, st)
            ELSE Outcome(Result(ContentJSON(got.val)), calls, st)

\* handleGetContentDetails
handleGetContentDetails(st, f, args) ==
    IF ~args.json THEN Outcome(NewValidationError(<<"arguments">>, "invalid JSON"), <<>>, st)
    ELSE IF parseUUIDFails(args.content_id)
        THEN Outcome(NewValidationError(<<"content_id">>, "not a UUID"), <<>>, st)
    ELSE
        LET det == SvcGetContentDetails(st, f, args.content_id, args.include_upload_url)
            calls == <<BackendCall("GetContentDetails", args.content_id)>>
        IN  IF det.err # "" THEN Outcome(MapError(det.err), calls, st)
            ELSE Outcome(Result(det.val), calls, st)

\* contents[start:end] after the two clamps: a panic when the bounds are no
\* slice bounds
Paginate(contents, offset, limit) ==
    LET start == IF offset > Len(contents) THEN Len(contents) ELSE offset
        end == IF offset + limit > Len(contents) THEN Len(contents) ELSE offset + limit
    IN  IF start < 0 \/ end < start THEN Panic
        ELSE Result(SubSeq(contents, start + 1, end))

\* the result of list_content and search_content
ListResult(paged, total, limit, offset) ==
    Result([items |-> ContentsJSON(paged), total |-> total, limit |-> limit, offset |-> offset])

\* handleListContent
handleListContent(st, f, requireOwner, admin, defaultPage, args) ==
    IF ~args.json THEN Outcome(NewValidationError(<<"arguments">>, "invalid JSON"), <<>>, st)
    ELSE
        LET limit == getIntOr(args.limit, defaultPage)
            offset == getIntOr(args.offset, 0)
            owner == IF parseUUIDFails(args.owner_id) THEN "" ELSE args.owner_id
        IN  IF ~requireOwner /\ admin
            THEN
                LET filters == [owner |-> owner, status |-> args.status,
                                limit |-> limit, offset |-> offset]
                    all == SvcListAllContents(st, f, filters)
                    calls == <<BackendCall("ListAllContents", owner)>>
                IN  IF all.err # "" THEN Outcome(MapError(all.err), calls, st)
                    ELSE Outcome(ListResult(all.val, Len(all.val), limit, offset), calls, st)
            ELSE
                LET listed == SvcListContent(st, f, owner)
                    calls == <<BackendCall("ListContent", owner)>>
                    contents == IF args.status = "" THEN listed.val
                                ELSE SelectStatus(listed.val, args.status)
                    paged == Paginate(contents, offset, limit)
                IN  IF listed.err # "" THEN Outcome(MapError(listed.err), calls, st)
                    ELSE IF paged.kind = "panic" THEN Outcome(Panic, calls, st)
                    ELSE Outcome(ListResult(paged.payload, Len(contents), limit, offset), calls, st)

\* toLowerString
RECURSIVE toLowerString(_)
toLowerString(s) ==
    IF s = "" THEN "" ELSE toLower(SubSeq(s, 1, 1)) \o toLowerString(SubSeq(s, 2, Len(s)))

\* containsString
containsString(s, substr) ==
    \/ Len(substr) = 0
    \/ /\ Len(s) >= Len(substr)
       /\ \E i \in 0..(Len(s) - Len(substr)) : SubSeq(s, i + 1, i + Len(substr)) = substr

RECURSIVE SelectQuery(_, _)
SelectQuery(list, queryLower) ==
    IF list = <<>> THEN <<>>
    ELSE IF containsString(toLowerString(Head(list).Name), queryLower)
        THEN <<Head(list)>> \o SelectQuery(Tail(list), queryLower)
    ELSE SelectQuery(Tail(list), queryLower)

RECURSIVE SelectStatuses(_, _)
SelectStatuses(list, statuses) ==
    IF list = <<>> THEN <<>>
    ELSE IF \E i \in 1..Len(statuses) : statuses[i] = Head(list).Status
        THEN <<Head(list)>> \o SelectStatuses(Tail(list), statuses)
    ELSE SelectStatuses(Tail(list), statuses)

\* handleSearchContent
handleSearchContent(st, f, defaultPage, args) ==
    IF ~args.json THEN Outcome(NewValidationError(<<"arguments">>, "invalid JSON"), <<>>, st)
    ELSE
        LET owner == IF parseUUIDFails(args.owner_id) THEN "" ELSE args.owner_id
            listed == SvcListContent(st, f, owner)
            calls == <<BackendCall("ListContent", owner)>>
            limit == getIntOr(args.limit, defaultPage)
            offset == getIntOr(args.offset, 0)
            byQuery == IF args.query = "" THEN listed.val
                       ELSE SelectQuery(listed.val, toLowerString(args.query))
            filtered == IF args.status = <<>> THEN byQuery
                        ELSE SelectStatuses(byQuery, args.status)
            paged == Paginate(filtered, offset, limit)
        IN  IF listed.err # "" THEN Outcome(MapError(listed.err), calls, st)
            ELSE IF paged.kind = "panic" THEN Outcome(Panic, calls, st)
            ELSE Outcome(ListResult(paged.payload, Len(filtered), limit, offset), calls, st)

\* handleDeleteContent
handleDeleteContent(st, f, args) ==
    IF ~args.json THEN Outcome(NewValidationError(<<"arguments">>, "invalid JSON"), <<>>, st)
    ELSE IF parseUUIDFails(args.content_id)
        THEN Outcome(NewValidationError(<<"content_id">>, "not a UUID"), <<>>, st)
    ELSE
        LET del == SvcDeleteContent(st, f, args.content_id)
            calls == <<BackendCall("DeleteContent", args.content_id)>>
        IN  IF del.err # "" THEN Outcome(MapError(del.err), calls, st)
            ELSE Outcome(Result([success |-> TRUE]), calls, Without(st, args.content_id))

(***************************************************************************)
(* Resource handlers (resources.go)                                        *)
(***************************************************************************)
\* strings.Split(path, "/")
RECURSIVE Split(_)
Split(path) ==
    IF IndexOf(path, "/") = 0 THEN <<path>>
    ELSE <<SubSeq(path, 1, IndexOf(path, "/") - 1)>>
         \o Split(SubSeq(path, IndexOf(path, "/") + 1, Len(path)))

\* the URIs of a resources/read
ResourceURIs ==
    {"content://u1", "content://u2/details", "content://", "content://zz", "content://u1/x",
     "file://u1"}

\* handleContentResource and handleContentDetailsResource
handleContentResource(st, f, uri) ==
    IF ~HasPrefix(uri, "content://") THEN Outcome(PlainError("Resource not found"), <<>>, st)
    ELSE
        LET parts == Split(TrimPrefix(uri, "content://"))
        IN  IF parts[1] = "" THEN Outcome(PlainError("Resource not found"), <<>>, st)
            ELSE IF parseUUIDFails(parts[1])
                THEN Outcome(NewValidationError(<<"id">>, "not a UUID"), <<>>, st)
            ELSE IF Len(parts) = 2 /\ parts[2] = "details"
                THEN
                    LET det == SvcGetContentDetails(st, f, parts[1], FALSE)
                        calls == <<BackendCall("GetContentDetails", parts[1])>>
                    IN  IF det.err # "" THEN Outcome(MapError(det.err), calls, st)
                        ELSE Outcome(Result(det.val), calls, st)
            ELSE
                LET got == SvcGetContent(st, f, parts[1])
                    calls == <<BackendCall("GetContent", parts[1])>>
                IN  IF got.err # "" THEN Outcome(MapError(got.err), calls, st)
                    ELSE Outcome(Result(ContentJSON(got.val)), calls, st)

\* the statuses handleSystemStatsResource counts
StatsStatuses ==
    <<"created", "uploading", "uploaded", "processing", "processed", "failed", "archived">>

\* handleSystemStatsResource: one GetContentByStatus per status; a failing
\* call is left out of the counts
RECURSIVE StatsTotal(_, _, _)
StatsTotal(st, f, i) ==
    IF i > Len(StatsStatuses) THEN 0
    ELSE (IF SvcGetContentByStatus(st, f, StatsStatuses[i]).err = ""
          THEN Len(SvcGetContentByStatus(st, f, StatsStatuses[i]).val) ELSE 0)
         + StatsTotal(st, f, i + 1)

handleSystemStatsResource(st, f) ==
    Outcome(Result([total |-> StatsTotal(st, f, 1)]),
            [i \in 1..Len(StatsStatuses) |-> BackendCall("GetContentByStatus", StatsStatuses[i])],
            st)

(***************************************************************************)
(* One tool call or resource read from the transport to the handler        *)
(***************************************************************************)
\* the credentials a request can carry in its X-API-Key header; a stdio
\* request has no headers
CallCredentials == {"", "k1", "k2", "kx"}
CredsOf(mode) == IF mode = "stdio" THEN {""} ELSE CallCredentials

\* the HTTP request that carries a call to /mcp
CarrierRequest(cred) ==
    [kind |-> "http", path |-> "/mcp", origin |-> "", version |-> "", session |-> "",
     xApiKey |-> cred, authorization |-> ""]

\* Serve: what the transport does with a request before the SDK dispatches
\* it. stdio: mcpServer.Run with the context of Serve, which has no api_key.
\* sse: the /mcp handler, whose request context goes on to the handlers.
\* http: the /mcp handler of serveHTTP answers 501 and dispatches nothing.
\* validated is the key the transport has validated, "" if none.
Transport(mode, host, auth, registered, clock, cred) ==
    IF mode = "stdio" THEN [reached |-> TRUE, status |-> 0, ctxApiKey |-> "", validated |-> ""]
    ELSE IF mode = "sse"
        THEN [reached |-> McpAnswer(host, auth, registered, clock, CarrierRequest(cred)).handed,
              status |-> McpAnswer(host, auth, registered, clock, CarrierRequest(cred)).status,
              ctxApiKey |-> McpAnswer(host, auth, registered, clock, CarrierRequest(cred)).ctxApiKey,
              validated |-> McpAnswer(host, auth, registered, clock, CarrierRequest(cred)).ctxApiKey]
    ELSE [reached |-> FALSE, status |-> 501, ctxApiKey |-> "", validated |-> ""]

\* an answer of the transport itself
TransportAnswer(status) == [kind |-> "transport", status |-> status]

\* a middleware that takes the key in the context as validated already
MiddlewareTrustsContext(registered, clock, apiKey) ==
    IF apiKey = "" THEN PlainError("authentication required: API key missing") ELSE NoError

\* auth.Middleware: the error it returns, or NoError when it calls the handler
Middleware(registered, clock, apiKey) ==
    IF apiKey = "" THEN PlainError("authentication required: API key missing")
    ELSE IF Validate(registered, clock, apiKey) # ""
        THEN PlainError("authentication failed: " \o Validate(registered, clock, apiKey))
    ELSE NoError

\* no call is being answered
CallIsIdle == callReq.kind = "none"

\* a tools/call: registerTools wraps the handler with the middleware when
\* authentication is enabled; h is the outcome of the handler if it runs.
\* callTrace collects the backend calls of a request and of its resubmission.
ToolCallVia(t, tool, cred, args, h) ==
    LET m == IF cfgAuth THEN Middleware(keys, now, t.ctxApiKey) ELSE NoError
    IN  /\ callReq' = [kind |-> "tool", op |-> tool, cred |-> cred, args |-> args,
                       submits |-> IF CallIsIdle THEN 1 ELSE callReq.submits + 1]
        /\ IF ~t.reached
           THEN /\ callResp' = TransportAnswer(t.status)
                /\ UNCHANGED callTrace
                /\ callAuth' = Validated("", "")
                /\ store' = store
           ELSE IF m.kind = "error"
           THEN /\ callResp' = m
                /\ UNCHANGED callTrace
                /\ callAuth' = Validated(t.validated, "")
                /\ store' = store
           ELSE /\ callResp' = h.resp
                /\ callTrace' = callTrace \o h.trace
                /\ callAuth' = Validated(t.validated, IF cfgAuth THEN t.ctxApiKey ELSE "")
                /\ store' = h.store
        /\ UNCHANGED <<cfgMode, cfgResources, cfgRequireOwner, cfgAdmin, cfgDefaultPage,
                       cfgMaxPage, fault>>
        /\ UNCHANGED <<batchVars, gateVars, keyVars, restVars>>

\* a tools/call that arrives in a request of its own
ToolCall(tool, cred, args, h) ==
    ToolCallVia(Transport(cfgMode, cfgHost, cfgAuth, keys, now, cred), tool, cred, args, h)

\* a resources/read: registerResources adds the handler as it is
ResourceRead(uri, cred, h) ==
    LET t == Transport(cfgMode, cfgHost, cfgAuth, keys, now, cred)
    IN  /\ callReq' = [kind |-> "resource", op |-> uri, cred |-> cred, args |-> <<>>,
                       submits |-> 1]
        /\ IF ~t.reached
           THEN /\ callResp' = TransportAnswer(t.status)
                /\ callTrace' = <<>>
                /\ callAuth' = Validated("", "")
                /\ store' = store
           ELSE /\ callResp' = h.resp
                /\ callTrace' = h.trace
                /\ callAuth' = Validated(t.validated, "")
                /\ store' = h.store
        /\ UNCHANGED <<cfgMode, cfgResources, cfgRequireOwner, cfgAdmin, cfgDefaultPage,
                       cfgMaxPage, fault>>
        /\ UNCHANGED <<batchVars, gateVars, keyVars, restVars>>

\* tools/call upload_content
CallUploadContent ==
    /\ CallIsIdle
    /\ Len(store) < MaxContents
    /\ \E cred \in CredsOf(cfgMode), args \in UploadContentArgs :
          \E fetched \in DecodeOutcomes(args.data) :
              ToolCall("upload_content", cred, args,
                       handleUploadContent(store, fault, args, fetched))

\* tools/call get_content
CallGetContent ==
    /\ CallIsIdle
    /\ \E cred \in CredsOf(cfgMode), args \in GetArgs :
        ToolCall("get_content", cred, args, handleGetContent(store, fault, args))

\* tools/call get_content_details
CallGetContentDetails ==
    /\ CallIsIdle
    /\ \E cred \in CredsOf(cfgMode), args \in GetDetailsArgs :
        ToolCall("get_content_details", cred, args, handleGetContentDetails(store, fault, args))

\* tools/call list_content
CallListContent ==
    /\ CallIsIdle
    /\ \E cred \in CredsOf(cfgMode), args \in ListArgs :
        ToolCall("list_content", cred, args,
                 handleListContent(store, fault, cfgRequireOwner, cfgAdmin, cfgDefaultPage, args))

\* tools/call search_content
CallSearchContent ==
    /\ CallIsIdle
    /\ \E cred \in CredsOf(cfgMode), args \in SearchArgs :
        ToolCall("search_content", cred, args,
                 handleSearchContent(store, fault, cfgDefaultPage, args))

\* tools/call delete_content
CallDeleteContent ==
    /\ CallIsIdle
    /\ \E cred \in CredsOf(cfgMode), args \in GetArgs :
        ToolCall("delete_content", cred, args, handleDeleteContent(store, fault, args))

\* resources/read of a content:// URI
ReadContentResource ==
    /\ CallIsIdle
    /\ cfgResources
    /\ \E cred \in CredsOf(cfgMode), uri \in ResourceURIs :
          ResourceRead(uri, cred, handleContentResource(store, fault, uri))

\* resources/read of stats://system
ReadSystemStats ==
    /\ CallIsIdle
    /\ cfgResources
    /\ \E cred \in CredsOf(cfgMode) :
          ResourceRead("stats://system", cred, handleSystemStatsResource(store, fault))

\* a client opens a stream at /mcp: the request passes the checks of the
\* endpoint and its context, with the api_key, goes to the stream handler
OpenStream ==
    /\ CallIsIdle
    /\ cfgMode = "sse"
    /\ srvState = "serving"
    /\ ~stream.open
    /\ \E cred \in CallCredentials :
          /\ Transport(cfgMode, cfgHost, cfgAuth, keys, now, cred).reached
          /\ stream' = [open |-> TRUE,
                        key |-> Transport(cfgMode, cfgHost, cfgAuth, keys, now, cred).ctxApiKey]
    /\ UNCHANGED <<fnVars, srvVars, updVars>>
    /\ UNCHANGED <<batchVars, gateVars, callVars, keyVars>>

\* the client goes away
CloseStream ==
    /\ CallIsIdle
    /\ stream.open
    /\ stream' = [open |-> FALSE, key |-> ""]
    /\ UNCHANGED <<fnVars, srvVars, updVars>>
    /\ UNCHANGED <<batchVars, gateVars, callVars, keyVars>>

\* what the transport hands on for a call made in the context of the stream
\* that was opened earlier
StreamContext == [reached |-> TRUE, status |-> 0, ctxApiKey |-> stream.key, validated |-> stream.key]

\* tools/call get_content, dispatched with the context of the open stream
CallGetContentOnStream ==
    /\ CallIsIdle
    /\ stream.open
    /\ \E args \in GetArgs :
          ToolCallVia(StreamContext, "get_content", stream.key, args,
                      handleGetContent(store, fault, args))

\* the same get_content or get_content_details request is submitted again
Resubmit ==
    /\ callReq.kind = "tool"
    /\ callReq.submits < MaxSubmits
    /\ \/ /\ callReq.op = "get_content"
          /\ ToolCall("get_content", callReq.cred, callReq.args,
                      handleGetContent(store, fault, callReq.args))
       \/ /\ callReq.op = "get_content_details"
          /\ ToolCall("get_content_details", callReq.cred, callReq.args,
                      handleGetContentDetails(store, fault, callReq.args))

\* the answer is out; the server takes the next call
NextCall ==
    /\ ~CallIsIdle
    /\ callReq' = NoError
    /\ callResp' = NoError
    /\ callTrace' = <<>>
    /\ callAuth' = Validated("", "")
    /\ UNCHANGED <<cfgMode, cfgResources, cfgRequireOwner, cfgAdmin, cfgDefaultPage, cfgMaxPage,
                   store, fault>>
    /\ UNCHANGED <<batchVars, gateVars, keyVars, restVars>>

\* the backend starts or stops failing
BackendFault ==
    /\ CallIsIdle
    /\ \E f \in BackendFaults : f # fault /\ fault' = f
    /\ UNCHANGED <<cfgMode, cfgResources, cfgRequireOwner, cfgAdmin, cfgDefaultPage, cfgMaxPage,
                   store, callReq, callResp, callTrace, callAuth>>
    /\ UNCHANGED <<batchVars, gateVars, keyVars, restVars>>

\* DefaultPageSize and MaxPageSize that Config.Validate lets through
PageSizes == {<<d, m>> : d \in 1..MaxContents, m \in 1..MaxContents} \ {<<MaxContents, 1>>}

\* the handlers behind a stdio server without authentication
HandlerSpecInit ==
    /\ BatchInit
    /\ GateIdle
    /\ KeyInit /\ RestInit
    /\ cfgMode = "stdio"
    /\ cfgResources = TRUE
    /\ cfgRequireOwner \in BOOLEAN
    /\ cfgAdmin \in BOOLEAN
    /\ \E p \in PageSizes : cfgDefaultPage = p[1] /\ cfgMaxPage = p[2]
    /\ store = <<>>
    /\ fault = ""
    /\ CallIdle

HandlerNext ==
    \/ CallUploadContent
    \/ CallGetContent
    \/ CallGetContentDetails
    \/ CallListContent
    \/ CallSearchContent
    \/ CallDeleteContent
    \/ Resubmit
    \/ NextCall
    \/ BackendFault

HandlerSpec == HandlerSpecInit /\ [][HandlerNext]_vars

\* a content the backend holds before the server starts
SeedContent == [ID |-> "u1", OwnerID |-> "u1", Name |-> "a", Status |-> "uploaded"]

\* calls through each transport, with and without authentication
AuthCallSpecInit ==
    /\ BatchInit
    /\ KeyInit /\ RestInit
    /\ cfgHost = "localhost"
    /\ cfgAuth \in BOOLEAN
    /\ keys = <<>>
    /\ now = 0
    /\ httpReq = NoError
    /\ httpResp = NoError
    /\ cfgMode \in {"stdio", "sse", "http"}
    /\ cfgResources \in BOOLEAN
    /\ cfgRequireOwner = TRUE
    /\ cfgAdmin = FALSE
    /\ cfgDefaultPage = 1
    /\ cfgMaxPage = MaxContents
    /\ store \in {<<>>, <<SeedContent>>}
    /\ fault = ""
    /\ CallIdle

AuthCallNext ==
    \/ \E k \in KeyNames : AddKey(k)
    \/ \E k \in KeyNames : RemoveKey(k)
    \/ Tick
    \/ CallUploadContent
    \/ CallGetContent
    \/ OpenStream
    \/ CloseStream
    \/ CallGetContentOnStream
    \/ ReadContentResource
    \/ ReadSystemStats
    \/ NextCall

AuthCallSpec == AuthCallSpecInit /\ [][AuthCallNext]_vars

CallNext ==
    \/ CallUploadContent
    \/ CallGetContent
    \/ CallGetContentDetails
    \/ CallListContent
    \/ CallSearchContent
    \/ CallDeleteContent
    \/ ReadContentResource
    \/ ReadSystemStats
    \/ OpenStream
    \/ CloseStream
    \/ CallGetContentOnStream
    \/ Resubmit
    \/ NextCall
    \/ BackendFault

(***************************************************************************)
(* APIKeyAuthenticator under concurrent use (apikey.go): one goroutine      *)
(* calls AddKey, one RemoveKey, one Validate, each again and again; every  *)
(* call is the lock, the access to the map and the unlock, step by step.   *)
(* vposs and vmustFail are history variables of the Validate in progress.  *)
(***************************************************************************)
Adder == "adder"
Remover == "remover"
Validator == "validator"
Writers == {Adder, Remover}
Threads == Writers \cup {Validator}
NoThread == ""

\* the keys a Validate is called with: the registered ones and a stranger
ValidateKeys == KeyNames \cup {"kx"}

\* the (keyInfo, err) that Validate returns
ValidateOk(info) == [err |-> "", info |-> info]
ValidateErr(msg) == [err |-> msg, info |-> <<>>]

\* the process dies: "fatal error: concurrent map read and map write"
MapCrash == [err |-> "fatal error", info |-> <<>>]

\* what a Validate that takes effect at one moment returns
ValidateAt(registered, clock, apiKey) ==
    IF Validate(registered, clock, apiKey) = "" THEN ValidateOk(registered[apiKey])
    ELSE ValidateErr(Validate(registered, clock, apiKey))

\* a Validate has been called and has not yet decided its return value
Validating == tpc[Validator] \in {"RLock", "lookup", "expiry"}

\* vposs after the map or the clock has changed
PossAfter(registered, clock) ==
    IF Validating THEN vposs \cup {ValidateAt(registered, clock, tkey[Validator])} ELSE vposs

\* a.mu.Lock() returns when no goroutine holds the lock
CanLock == rwWriter = NoThread /\ rwReaders = {}

\* an RLock that does not wait for the writer
CanRLockAlways == TRUE

\* a.mu.RLock() returns when no writer holds the lock
CanRLock == rwWriter = NoThread

\* AddKey(keyInfo) is called
InvokeAddKey(k) ==
    /\ tpc[Adder] = "idle"
    /\ tpc' = [tpc EXCEPT ![Adder] = "Lock"]
    /\ tkey' = [tkey EXCEPT ![Adder] = k]
    /\ vmustFail' = (vmustFail /\ ~(tpc[Validator] # "idle" /\ tkey[Validator] = k))
    /\ UNCHANGED <<rwWriter, rwReaders, mapBusy, vlocal, vres, vposs>>
    /\ UNCHANGED <<cfgHost, cfgAuth, keys, now, httpReq, httpResp>>
    /\ UNCHANGED <<batchVars, callVars, restVars>>

\* RemoveKey(key) is called
InvokeRemoveKey(k) ==
    /\ tpc[Remover] = "idle"
    /\ tpc' = [tpc EXCEPT ![Remover] = "Lock"]
    /\ tkey' = [tkey EXCEPT ![Remover] = k]
    /\ UNCHANGED <<rwWriter, rwReaders, mapBusy, vlocal, vres, vposs, vmustFail>>
    /\ UNCHANGED <<cfgHost, cfgAuth, keys, now, httpReq, httpResp>>
    /\ UNCHANGED <<batchVars, callVars, restVars>>

\* Validate(ctx, apiKey) is called
InvokeValidate(k) ==
    /\ tpc[Validator] = "idle"
    /\ tpc' = [tpc EXCEPT ![Validator] = "RLock"]
    /\ tkey' = [tkey EXCEPT ![Validator] = k]
    /\ vposs' = {ValidateAt(keys, now, k)}
    /\ vmustFail' = (k \notin DOMAIN keys /\ ~(tpc[Adder] # "idle" /\ tkey[Adder] = k))
    /\ vres' = NoError
    /\ UNCHANGED <<rwWriter, rwReaders, mapBusy, vlocal>>
    /\ UNCHANGED <<cfgHost, cfgAuth, keys, now, httpReq, httpResp>>
    /\ UNCHANGED <<batchVars, callVars, restVars>>

\* a.mu.Lock() of AddKey or RemoveKey
WLock(t) ==
    /\ tpc[t] = "Lock"
    /\ CanLock
    /\ rwWriter' = t
    /\ tpc' = [tpc EXCEPT ![t] = "write"]
    /\ UNCHANGED <<rwReaders, mapBusy, tkey, vlocal, vres, vposs, vmustFail>>
    /\ UNCHANGED <<cfgHost, cfgAuth, keys, now, httpReq, httpResp>>
    /\ UNCHANGED <<batchVars, callVars, restVars>>

\* a.keys[k] = keyInfo or delete(a.keys, k) begins: the map is being changed
WriteStart(t) ==
    /\ tpc[t] = "write"
    /\ mapBusy' = TRUE
    /\ tpc' = [tpc EXCEPT ![t] = "writing"]
    /\ UNCHANGED <<rwWriter, rwReaders, tkey, vlocal, vres, vposs, vmustFail>>
    /\ UNCHANGED <<cfgHost, cfgAuth, keys, now, httpReq, httpResp>>
    /\ UNCHANGED <<batchVars, callVars, restVars>>

\* the map after the write of goroutine t
Written(t) ==
    IF t = Adder
    THEN [x \in DOMAIN keys \cup {tkey[t]} |-> IF x = tkey[t] THEN KeyInfoOf(x) ELSE keys[x]]
    ELSE [x \in DOMAIN keys \ {tkey[t]} |-> keys[x]]

\* a.keys[k] = keyInfo or delete(a.keys, k) is done
WriteEnd(t) ==
    /\ tpc[t] = "writing"
    /\ keys' = Written(t)
    /\ mapBusy' = FALSE
    /\ vposs' = PossAfter(Written(t), now)
    /\ tpc' = [tpc EXCEPT ![t] = "Unlock"]
    /\ UNCHANGED <<rwWriter, rwReaders, tkey, vlocal, vres, vmustFail>>
    /\ UNCHANGED <<cfgHost, cfgAuth, now, httpReq, httpResp>>
    /\ UNCHANGED <<batchVars, callVars, restVars>>

\* the deferred a.mu.Unlock(); AddKey or RemoveKey returns
WUnlock(t) ==
    /\ tpc[t] = "Unlock"
    /\ rwWriter' = NoThread
    /\ tpc' = [tpc EXCEPT ![t] = "idle"]
    /\ UNCHANGED <<rwReaders, mapBusy, tkey, vlocal, vres, vposs, vmustFail>>
    /\ UNCHANGED <<cfgHost, cfgAuth, keys, now, httpReq, httpResp>>
    /\ UNCHANGED <<batchVars, callVars, restVars>>

\* a.mu.RLock() of Validate
RLock ==
    /\ tpc[Validator] = "RLock"
    /\ CanRLock
    /\ rwReaders' = rwReaders \cup {Validator}
    /\ tpc' = [tpc EXCEPT ![Validator] = "lookup"]
    /\ UNCHANGED <<rwWriter, mapBusy, tkey, vlocal, vres, vposs, vmustFail>>
    /\ UNCHANGED <<cfgHost, cfgAuth, keys, now, httpReq, httpResp>>
    /\ UNCHANGED <<batchVars, callVars, restVars>>

\* what a read of the map can give while another goroutine is changing it
RacyReads ==
    {MapCrash, ValidateErr("invalid or missing API key")}
    \cup {ValidateOk(KeyInfoOf(k)) : k \in KeyNames}

\* keyInfo, exists := a.keys[apiKey], and the return when it does not exist
Lookup ==
    /\ tpc[Validator] = "lookup"
    /\ IF mapBusy
       THEN /\ \E r \in RacyReads : vres' = r
            /\ tpc' = [tpc EXCEPT ![Validator] = "RUnlock"]
            /\ UNCHANGED vlocal
       ELSE IF tkey[Validator] \notin DOMAIN keys
       THEN /\ vres' = ValidateErr("invalid or missing API key")
            /\ tpc' = [tpc EXCEPT ![Validator] = "RUnlock"]
            /\ UNCHANGED vlocal
       ELSE /\ vlocal' = keys[tkey[Validator]]
            /\ tpc' = [tpc EXCEPT ![Validator] = "expiry"]
            /\ UNCHANGED vres
    /\ UNCHANGED <<rwWriter, rwReaders, mapBusy, tkey, vposs, vmustFail>>
    /\ UNCHANGED <<cfgHost, cfgAuth, keys, now, httpReq, httpResp>>
    /\ UNCHANGED <<batchVars, callVars, restVars>>

\* keyInfo.ExpiresAt != nil && time.Now().After(*keyInfo.ExpiresAt)
CheckExpiry ==
    /\ tpc[Validator] = "expiry"
    /\ vres' = IF vlocal.ExpiresAt # NoExpiry /\ now > vlocal.ExpiresAt
               THEN ValidateErr("API key has expired")
               ELSE ValidateOk(vlocal)
    /\ tpc' = [tpc EXCEPT ![Validator] = "RUnlock"]
    /\ UNCHANGED <<rwWriter, rwReaders, mapBusy, tkey, vlocal, vposs, vmustFail>>
    /\ UNCHANGED <<cfgHost, cfgAuth, keys, now, httpReq, httpResp>>
    /\ UNCHANGED <<batchVars, callVars, restVars>>

\* the deferred a.mu.RUnlock(); Validate returns vres
RUnlock ==
    /\ tpc[Validator] = "RUnlock"
    /\ rwReaders' = rwReaders \ {Validator}
    /\ tpc' = [tpc EXCEPT ![Validator] = "idle"]
    /\ UNCHANGED <<rwWriter, mapBusy, tkey, vlocal, vres, vposs, vmustFail>>
    /\ UNCHANGED <<cfgHost, cfgAuth, keys, now, httpReq, httpResp>>
    /\ UNCHANGED <<batchVars, callVars, restVars>>

\* the wall clock moves on while the goroutines run
ClockTick ==
    /\ now < MaxTime
    /\ now' = now + 1
    /\ vposs' = PossAfter(keys, now + 1)
    /\ UNCHANGED <<rwWriter, rwReaders, mapBusy, tpc, tkey, vlocal, vres, vmustFail>>
    /\ UNCHANGED <<cfgHost, cfgAuth, keys, httpReq, httpResp>>
    /\ UNCHANGED <<batchVars, callVars, restVars>>

KeySpecInit == BatchInit /\ GateIdle /\ CallInit /\ KeyInit /\ RestInit

KeyNext ==
    \/ \E k \in KeyNames : InvokeAddKey(k)
    \/ \E k \in KeyNames : InvokeRemoveKey(k)
    \/ \E k \in ValidateKeys : InvokeValidate(k)
    \/ \E t \in Writers : WLock(t)
    \/ \E t \in Writers : WriteStart(t)
    \/ \E t \in Writers : WriteEnd(t)
    \/ \E t \in Writers : WUnlock(t)
    \/ RLock
    \/ Lookup
    \/ CheckExpiry
    \/ RUnlock
    \/ ClockTick

KeySpec == KeySpecInit /\ [][KeyNext]_vars

(***************************************************************************)
(* Loading the API keys from the environment (cmd/mcpserver-http)          *)
(***************************************************************************)
\* strings.SplitN(value, sep, n)
RECURSIVE SplitN(_, _, _)
SplitN(value, sep, n) ==
    IF n = 1 \/ IndexOf(value, sep) = 0 THEN <<value>>
    ELSE <<SubSeq(value, 1, IndexOf(value, sep) - 1)>>
         \o SplitN(SubSeq(value, IndexOf(value, sep) + Len(sep), Len(value)), sep, n - 1)

\* strings.Join(fields, sep)
RECURSIVE Join(_, _)
Join(fields, sep) ==
    IF Len(fields) = 0 THEN ""
    ELSE IF Len(fields) = 1 THEN fields[1]
    ELSE fields[1] \o sep \o Join(Tail(fields), sep)

\* the strings uuid.Parse accepts
ParsesAsUUID(str) == str \in UUIDs \cup {"t1"}

\* the strings time.Parse(time.RFC3339, ..) accepts, and the time of each
RFC3339Times == {"0:00Z", "1:00Z"}
TimeOf(str) == IF str = "0:00Z" THEN 0 ELSE 1

\* the fields of a MCP_API_KEY_n entry: the key, the owner, and then the
\* tenant and the expiry or neither or the tenant alone
EnvKeys == {"", "k1"}
EnvOwners == {"", "u1", "zz"}
EnvTenants == {"", "t1", "zz"}
EnvExpiries == {"", "1:00Z", "soon"}
EnvEntries ==
    {<<k>> : k \in EnvKeys \ {""}}
    \cup {<<k, o>> : k \in EnvKeys, o \in EnvOwners}
    \cup {<<k, o, t>> : k \in EnvKeys, o \in EnvOwners, t \in EnvTenants}
    \cup {<<k, o, t, e>> : k \in EnvKeys, o \in EnvOwners, t \in EnvTenants, e \in EnvExpiries}

\* a nil *auth.KeyInfo
NilKeyInfo == [kind |-> "nil"]

\* parseAPIKeyEnv
parseAPIKeyEnv(value) ==
    LET parts == SplitN(value, ":", 4)
    IN  IF Len(parts) < 2 THEN NilKeyInfo
        ELSE IF ~ParsesAsUUID(parts[2]) THEN NilKeyInfo
        ELSE [kind |-> "keyInfo",
              Key |-> parts[1],
              OwnerID |-> parts[2],
              TenantID |-> IF Len(parts) > 2 /\ parts[3] # "" /\ ParsesAsUUID(parts[3])
                           THEN parts[3] ELSE None,
              ExpiresAt |-> IF Len(parts) > 3 /\ parts[4] # "" /\ parts[4] \in RFC3339Times
                            THEN TimeOf(parts[4]) ELSE NoExpiry]

\* loadAuthenticator, for one MCP_API_KEY_n that is set
LoadKey ==
    /\ fnArg.kind = "env"
    /\ fnRet.kind = "none"
    /\ fnRet' = parseAPIKeyEnv(fnArg.value)
    /\ UNCHANGED <<fnArg, stream, srvVars, updVars>>
    /\ UNCHANGED <<batchVars, gateVars, callVars, keyVars>>

\* the environment holds one entry
LoadSpecInit ==
    /\ BatchInit /\ GateIdle /\ CallInit /\ KeyInit /\ StreamInit /\ ServeInit /\ UpdInit
    /\ \E fields \in EnvEntries : fnArg = [kind |-> "env", fields |-> fields,
                                           value |-> Join(fields, ":")]
    /\ fnRet = [kind |-> "none"]

LoadNext == LoadKey

LoadSpec == LoadSpecInit /\ [][LoadNext]_vars

(***************************************************************************)
(* Config.Validate and New (config.go, server.go)                          *)
(***************************************************************************)
\* the configurations handed to New: Service and Authenticator are nil or not
Configs ==
    [kind : {"config"}, Service : BOOLEAN, Name : {"", "n"}, Version : {"", "v"},
     MaxBatchSize : {-1, 0, 1}, DefaultPageSize : {-1, 0, 1, 2}, MaxPageSize : {-1, 0, 1, 2},
     AuthEnabled : BOOLEAN, Authenticator : BOOLEAN]

\* a *ConfigError for a field
ConfigError(field) == [kind |-> "error", field |-> field]

\* a Validate that does not compare the two page sizes
ConfigValidateNoOrder(c) ==
    IF ~c.Service THEN ConfigError("Service")
    ELSE IF c.Name = "" THEN ConfigError("Name")
    ELSE IF c.Version = "" THEN ConfigError("Version")
    ELSE IF c.MaxBatchSize <= 0 THEN ConfigError("MaxBatchSize")
    ELSE IF c.DefaultPageSize <= 0 THEN ConfigError("DefaultPageSize")
    ELSE IF c.MaxPageSize <= 0 THEN ConfigError("MaxPageSize")
    ELSE IF c.AuthEnabled /\ ~c.Authenticator THEN ConfigError("Authenticator")
    ELSE NoError

\* (c *Config) Validate: the error, NoError for nil
ConfigValidate(c) ==
    IF ~c.Service THEN ConfigError("Service")
    ELSE IF c.Name = "" THEN ConfigError("Name")
    ELSE IF c.Version = "" THEN ConfigError("Version")
    ELSE IF c.MaxBatchSize <= 0 THEN ConfigError("MaxBatchSize")
    ELSE IF c.DefaultPageSize <= 0 THEN ConfigError("DefaultPageSize")
    ELSE IF c.MaxPageSize <= 0 THEN ConfigError("MaxPageSize")
    ELSE IF c.DefaultPageSize > c.MaxPageSize THEN ConfigError("DefaultPageSize")
    ELSE IF c.AuthEnabled /\ ~c.Authenticator THEN ConfigError("Authenticator")
    ELSE NoError

\* New: the error of Validate, or a server with the configuration; the
\* register functions return nil
New ==
    /\ fnArg.kind = "config"
    /\ fnRet.kind = "none"
    /\ fnRet' = IF ConfigValidate(fnArg).kind = "error" THEN ConfigValidate(fnArg)
                ELSE [kind |-> "server", config |-> fnArg]
    /\ UNCHANGED <<fnArg, stream, srvVars, updVars>>
    /\ UNCHANGED <<batchVars, gateVars, callVars, keyVars>>

ConfigSpecInit ==
    /\ BatchInit /\ GateIdle /\ CallInit /\ KeyInit /\ StreamInit /\ ServeInit /\ UpdInit
    /\ fnArg \in Configs
    /\ fnRet = [kind |-> "none"]

ConfigNext == New

ConfigSpec == ConfigSpecInit /\ [][ConfigNext]_vars

(***************************************************************************)
(* Serve in SSE mode: the select on ctx.Done() and server.Shutdown         *)
(* (server.go). http.Server.Shutdown closes the listeners and the idle     *)
(* connections and then waits for the active ones to become idle, until    *)
(* its own context is done; Serve gives it context.Background().           *)
(***************************************************************************)
\* the shutdown signal: main cancels the context of Serve
CancelContext ==
    /\ ~ctxDone
    /\ ctxDone' = TRUE
    /\ UNCHANGED <<srvState, fnVars, stream, updVars>>
    /\ UNCHANGED <<batchVars, gateVars, callVars, keyVars>>

\* case <-ctx.Done(): server.Shutdown(context.Background()) is called and
\* closes the listeners
BeginShutdown ==
    /\ ctxDone
    /\ srvState = "serving"
    /\ srvState' = "shutdown"
    /\ UNCHANGED <<ctxDone, fnVars, stream, updVars>>
    /\ UNCHANGED <<batchVars, gateVars, callVars, keyVars>>

\* Shutdown can return: no connection is active
ShutdownDone == ~stream.open

\* server.Shutdown returns, and Serve with it
ShutdownReturn ==
    /\ srvState = "shutdown"
    /\ ShutdownDone
    /\ srvState' = "returned"
    /\ UNCHANGED <<ctxDone, fnVars, stream, updVars>>
    /\ UNCHANGED <<batchVars, gateVars, callVars, keyVars>>

\* an SSE server with its keys and clients, until Serve returns
ServeSpecInit ==
    /\ BatchInit /\ CallIdle /\ KeyInit /\ FnInit /\ StreamInit /\ ServeInit /\ UpdInit
    /\ cfgHost = "localhost"
    /\ cfgAuth \in BOOLEAN
    /\ keys = <<>>
    /\ now = 0
    /\ httpReq = NoError
    /\ httpResp = NoError
    /\ cfgMode = "sse"
    /\ cfgResources \in BOOLEAN
    /\ cfgRequireOwner \in BOOLEAN
    /\ cfgAdmin = FALSE
    /\ cfgDefaultPage = 1
    /\ cfgMaxPage = MaxContents
    /\ store = <<>>
    /\ fault = ""

ServeNext ==
    \/ \E k \in KeyNames : AddKey(k)
    \/ \E k \in KeyNames : RemoveKey(k)
    \/ Tick
    \/ OpenStream
    \/ CloseStream
    \/ CancelContext
    \/ BeginShutdown
    \/ ShutdownReturn

\* Serve's goroutine runs; clients come and go as they like
ServeSpec ==
    /\ ServeSpecInit
    /\ [][ServeNext]_vars
    /\ WF_vars(BeginShutdown)
    /\ WF_vars(ShutdownReturn)

(***************************************************************************)
(* MapError applied to an error, and again to its own result (errors.go)   *)
(***************************************************************************)
\* pieces of error messages, in the spellings backends use
ErrorWords ==
    {"Not Found", "INVALID", "validation", "Blob", "S3", "storage", "Unauthorized",
     "authentication", "FORBIDDEN", "permission", "refused"}

\* the errors given to MapError: nil, one piece, or two pieces in a row
ErrorValues ==
    {[kind |-> "err", nil |-> TRUE, msg |-> ""]}
    \cup {[kind |-> "err", nil |-> FALSE, msg |-> w] : w \in ErrorWords}
    \cup {[kind |-> "err", nil |-> FALSE, msg |-> v \o " " \o w] : v, w \in ErrorWords}

\* a nil error
NilError == [kind |-> "nil"]

\* MapError(err) for an error that may be nil
MapErrorOf(nil, msg) == IF nil THEN NilError ELSE MapError(msg)

\* err = MapError(err)
ApplyMapError ==
    /\ fnArg.kind = "err"
    /\ fnRet.kind = "none"
    /\ fnRet' = [kind |-> "mapped", times |-> 1, first |-> MapErrorOf(fnArg.nil, fnArg.msg),
                 err |-> MapErrorOf(fnArg.nil, fnArg.msg)]
    /\ UNCHANGED <<fnArg, stream, srvVars, updVars>>
    /\ UNCHANGED <<batchVars, gateVars, callVars, keyVars>>

\* MapError is applied to its own result
ReapplyMapError ==
    /\ fnArg.kind = "err"
    /\ fnRet.kind = "mapped"
    /\ fnRet.times = 1
    /\ fnRet' = [fnRet EXCEPT !.times = 2,
                              !.err = MapErrorOf(fnRet.err.kind = "nil",
                                                 IF fnRet.err.kind = "nil" THEN ""
                                                 ELSE fnRet.err.msg)]
    /\ UNCHANGED <<fnArg, stream, srvVars, updVars>>
    /\ UNCHANGED <<batchVars, gateVars, callVars, keyVars>>

MapErrorSpecInit ==
    /\ BatchInit /\ GateIdle /\ CallInit /\ KeyInit /\ StreamInit /\ ServeInit /\ UpdInit
    /\ fnArg \in ErrorValues
    /\ fnRet = [kind |-> "none"]

MapErrorNext == ApplyMapError \/ ReapplyMapError

MapErrorSpec == MapErrorSpecInit /\ [][MapErrorNext]_vars

(***************************************************************************)
(* update_content: handleUpdateContent, one backend call at a time         *)
(***************************************************************************)
\* the arguments of an update_content call; "" is a string that is absent,
\* <<>> a list that is absent or empty, and metadata "" a map that is absent.
\* "u1" is the stored content, "u2" a UUID nothing is stored under, "zz" no
\* UUID; a call that does not reach the stored content carries no fields
UpdateArgs ==
    [content_id : {"u1"},
     name : {"", "n"},
     description : {"", "e"},
     tags : {<<>>, <<"t">>},
     metadata : {"", "m"}]
    \cup
    [content_id : {"u2", "zz"}, name : {""}, description : {""}, tags : {<<>>}, metadata : {""}]

\* the response of a successful update_content
UpdateSuccess == Result([success |-> TRUE])

\* what a backend call of this handler may fail with; "" is no failure
UpdateFaults == {"", "connection refused"}

\* a call of the goroutine is under way
InProgress(u) == upd[u].pc \notin {"idle", "returned"}

\* the handler returns
UpdReturn(u, ret) ==
    [upd[u] EXCEPT !.pc = "returned", !.ret = ret, !.content = IdleUpdater.content]

\* the backend's write is seen by every other call
Overwritten(u, rec) ==
    [o \in Updaters |-> IF o = u THEN rec ELSE [upd[o] EXCEPT !.alone = FALSE]]

\* tags or metadata were given
WantsMetadata(args) == Len(args.tags) > 0 \/ args.metadata # ""

\* a client calls update_content: the handler parses content_id
InvokeUpdateContent(u) ==
    /\ ~InProgress(u)
    /\ updCalls < MaxUpdates
    /\ \E args \in UpdateArgs :
          upd' = [upd EXCEPT ![u] =
                    IF parseUUIDFails(args.content_id)
                    THEN [pc |-> "returned", args |-> args, content |-> IdleUpdater.content,
                          ret |-> NewValidationError(<<"content_id">>, "not a UUID"),
                          before |-> uStore, alone |-> TRUE]
                    ELSE [pc |-> "get", args |-> args, content |-> IdleUpdater.content,
                          ret |-> NoError, before |-> uStore, alone |-> TRUE]]
    /\ updCalls' = updCalls + 1
    /\ updOverlap' = \E o \in Updaters \ {u} : InProgress(o)
    /\ UNCHANGED uStore
    /\ UNCHANGED <<batchVars, gateVars, callVars, keyVars, fnVars, stream, srvVars>>

\* s.service.GetContent, then the fields given are set on what it returned
UpdGetContent(u) ==
    /\ upd[u].pc = "get"
    /\ \E f \in UpdateFaults :
          upd' = [upd EXCEPT ![u] =
                    IF f # "" THEN UpdReturn(u, MapError(f))
                    ELSE IF upd[u].args.content_id # uStore.ID
                        THEN UpdReturn(u, MapError("content not found"))
                    ELSE [upd[u] EXCEPT
                            !.pc = "update",
                            !.content = [Name |-> IF upd[u].args.name # "" THEN upd[u].args.name
                                                  ELSE uStore.Name,
                                         Description |-> IF upd[u].args.description # ""
                                                         THEN upd[u].args.description
                                                         ELSE uStore.Description]]]
    /\ UNCHANGED <<uStore, updCalls, updOverlap>>
    /\ UNCHANGED <<batchVars, gateVars, callVars, keyVars, fnVars, stream, srvVars>>

\* s.service.UpdateContent with the content as the handler holds it
UpdUpdateContent(u) ==
    /\ upd[u].pc = "update"
    /\ \E f \in UpdateFaults :
          IF f # ""
          THEN /\ upd' = [upd EXCEPT ![u] = UpdReturn(u, MapError(f))]
               /\ UNCHANGED uStore
          ELSE /\ uStore' = [uStore EXCEPT !.Name = upd[u].content.Name,
                                           !.Description = upd[u].content.Description]
               /\ upd' = Overwritten(u, IF WantsMetadata(upd[u].args)
                                        THEN [upd[u] EXCEPT !.pc = "metadata"]
                                        ELSE UpdReturn(u, UpdateSuccess))
    /\ UNCHANGED <<updCalls, updOverlap>>
    /\ UNCHANGED <<batchVars, gateVars, callVars, keyVars, fnVars, stream, srvVars>>

\* s.service.SetContentMetadata with the tags and the metadata given
UpdSetContentMetadata(u) ==
    /\ upd[u].pc = "metadata"
    /\ \E f \in UpdateFaults :
          IF f # ""
          THEN /\ upd' = [upd EXCEPT ![u] = UpdReturn(u, MapError(f))]
               /\ UNCHANGED uStore
          ELSE /\ uStore' = [uStore EXCEPT !.Tags = upd[u].args.tags,
                                           !.CustomMetadata = upd[u].args.metadata]
               /\ upd' = Overwritten(u, UpdReturn(u, UpdateSuccess))
    /\ UNCHANGED <<updCalls, updOverlap>>
    /\ UNCHANGED <<batchVars, gateVars, callVars, keyVars, fnVars, stream, srvVars>>

UpdateSpecInit == BatchInit /\ GateIdle /\ CallInit /\ KeyInit /\ RestInit

UpdateNext ==
    \E u \in Updaters :
        \/ InvokeUpdateContent(u)
        \/ UpdGetContent(u)
        \/ UpdUpdateContent(u)
        \/ UpdSetContentMetadata(u)

UpdateSpec == UpdateSpecInit /\ [][UpdateNext]_vars

Init == BatchInit /\ GateInit /\ CallInit /\ KeyInit /\ RestInit

Next == BatchNext \/ GateNext \/ CallNext \/ KeyNext

Spec == Init /\ [][Next]_vars

(***************************************************************************)
(* Properties of the batch handlers                                        *)
(***************************************************************************)
BatchReturnedOk == bpc = "returned" /\ bResp.kind = "ok"

\* the request in hand passes every check made before the goroutines start
PassesValidation ==
    /\ bpc # "idle"
    /\ IF bTool = "batch_upload" THEN UploadValidate(bArgs).kind = "none"
       ELSE DetailsValidate(bArgs).kind = "none"

\* the outcome goroutine i arrived at: it failed, or it has a value
UnitFailed(i) == ulocal[i].Error # ""

\* C1: a batch request of N items (0 < N <= MaxBatchSize) that passes the
\* up-front validation is answered with a results array of exactly N entries
\* whose entry i has index i, whichever items failed and in whatever order
\* the goroutines stored their results.
C1_IndexPreserved ==
    (bpc = "returned" /\ PassesValidation) =>
        /\ bResp.kind = "ok"
        /\ BatchN > 0 /\ BatchN <= MaxBatchSize
        /\ DOMAIN bResp.results = 0..(BatchN - 1)
        /\ \A i \in 0..(BatchN - 1) : bResp.results[i].Index = i

\* C1 witness: a full-size batch has returned with a failed item in front of
\* a successful one and a successful one in front of a failed one.
C1_Witness ==
    /\ BatchReturnedOk
    /\ BatchN = MaxBatchSize
    /\ \E i, j, k \in Units : i < j /\ j < k /\ UnitFailed(i) /\ ~UnitFailed(j) /\ UnitFailed(k)

\* C2: a failed unit (decode error or backend error) never aborts or skips a
\* sibling: when the handler returns, every unit has finished, has stored its
\* own outcome in its slot, and has made its own backend call unless its own
\* data failed to decode.
C2_SiblingsRunToCompletion ==
    BatchReturnedOk =>
        \A i \in Units :
            /\ upc[i] = "done"
            /\ results[i] = ulocal[i]
            /\ bResp.results[i] = ulocal[i]
            /\ (ulocal[i].Error # "failed to decode data") => i \in svcCalls

\* C2 witness: one unit failed to decode, another failed in the backend, and
\* a third made its backend call and succeeded.
C2_Witness ==
    /\ BatchReturnedOk
    /\ bTool = "batch_upload"
    /\ \E i, j, k \in Units :
          /\ ulocal[i].Error = "failed to decode data"
          /\ ulocal[j].Error = "upload failed"
          /\ ulocal[k].Success /\ k \in svcCalls /\ i < k /\ j < k

\* C3: in a batch response, total is the number of input items, successful
\* the number of slots reporting success, failed the number of slots
\* reporting an error, and successful + failed = total.
C3_AggregateCounts ==
    BatchReturnedOk =>
        /\ bResp.total = Len(BatchItems)
        /\ bResp.successful = Cardinality({i \in Units : SlotOk(bTool, bResp.results[i])})
        /\ bResp.failed = Cardinality({i \in Units : bResp.results[i].Error # ""})
        /\ bResp.successful = Cardinality({i \in Units : ~UnitFailed(i)})
        /\ bResp.successful + bResp.failed = bResp.total

\* C3 witness: a response with two successes and one failure.
C3_Witness ==
    /\ BatchReturnedOk
    /\ bTool = "batch_get_details"
    /\ bResp.total = 3 /\ bResp.successful = 2 /\ bResp.failed = 1

\* the request's array has this many entries (whatever else is wrong with it)
ArrayOfLen(n) == bpc # "idle" /\ bArgs.json /\ bArgs.shape = "array" /\ BatchN = n

\* the part of the request in front of the array is valid
PreambleOk ==
    /\ bArgs.json
    /\ bTool = "batch_upload" =>
          /\ ~parseUUIDFails(bArgs.owner_id)
          /\ (bArgs.tenant_id = None \/ ~parseUUIDFails(bArgs.tenant_id))

ArrayField == IF bTool = "batch_upload" THEN <<"items">> ELSE <<"content_ids">>

NothingStarted == upc = <<>> /\ wg = 0 /\ svcCalls = {} /\ results = <<>>

\* C4: a batch request with 0 items is rejected with a shape error and one
\* with MaxBatchSize + 1 items with a size-limit error, in both cases before
\* any unit is started and before any backend call.
C4_EmptyAndOversizeRejected ==
    (ArrayOfLen(0) \/ ArrayOfLen(MaxBatchSize + 1)) =>
        /\ bpc = "returned"
        /\ bResp.kind = "error" /\ bResp.category = "validation"
        /\ NothingStarted
        /\ PreambleOk =>
              /\ bResp.field = ArrayField
              /\ bResp.msg = IF BatchN = 0
                             THEN (IF bTool = "batch_upload" THEN "items array cannot be empty"
                                   ELSE "content_ids array cannot be empty")
                             ELSE "batch size exceeds maximum"

\* C4 witness: an oversize batch_upload whose items are all valid was rejected.
C4_Witness ==
    /\ ArrayOfLen(MaxBatchSize + 1)
    /\ bTool = "batch_upload"
    /\ PreambleOk
    /\ \A i \in 1..BatchN : bArgs.items[i].obj /\ bArgs.items[i].name # "" /\ bArgs.items[i].data # ""
    /\ bResp.kind = "error"

\* item i (from 0) of the request fails validation, in the wide sense: an
\* upload item that lacks name or data or whose data is not base64; a
\* content id that is no UUID
ItemInvalidWide(i) ==
    IF bTool = "batch_upload"
    THEN LET item == bArgs.items[i + 1]
         IN  item.obj /\ (item.name = "" \/ item.data = "" \/ item.data = "!!")
    ELSE parseUUIDFails(bArgs.content_ids[i + 1])

\* item i is valid, and its backend call, if made, succeeded
ItemWentWell(i) ==
    /\ IF bTool = "batch_upload"
       THEN LET item == bArgs.items[i + 1]
            IN  item.obj /\ item.name # "" /\ item.data = "QQ=="
       ELSE ~parseUUIDFails(bArgs.content_ids[i + 1])
    /\ (i \in DOMAIN ulocal => ulocal[i].Error = "")

\* a request of 1..MaxBatchSize items, exactly one of them (index bad) failing
\* validation in the wide sense, every other one going well
OneInvalidItem(bad) ==
    /\ bpc = "returned"
    /\ PreambleOk /\ bArgs.shape = "array"
    /\ BatchN >= 1 /\ BatchN <= MaxBatchSize
    /\ bad \in Units
    /\ ItemInvalidWide(bad)
    /\ \A i \in Units \ {bad} : ItemWentWell(i)

\* the response counts one failure, in slot bad, and values in all others
OneFailureReported(bad) ==
    /\ bResp.kind = "ok"
    /\ bResp.total = BatchN /\ bResp.successful = BatchN - 1 /\ bResp.failed = 1
    /\ bResp.results[bad].Error # "" /\ ~SlotOk(bTool, bResp.results[bad])
    /\ \A i \in Units \ {bad} :
          /\ SlotOk(bTool, bResp.results[i])
          /\ bResp.results[i] = CallResult(bTool, i, BatchItems[i + 1], TRUE)

\* C5 as stated: a batch in which exactly one item fails validation (upload
\* item with missing name or data or undecodable data, content id that is no
\* valid id) is answered with total N, successful N - 1, failed 1, the error
\* in that item's slot and the values in the others.
C5_AsStated == \A bad \in 0..MaxBatchSize : OneInvalidItem(bad) => OneFailureReported(bad)

\* the one failing item's data cannot be decoded; nothing else is wrong with it
UndecodableOnly(bad) ==
    /\ bTool = "batch_upload"
    /\ bArgs.items[bad + 1].name # ""
    /\ bArgs.items[bad + 1].data = "!!"

\* C5 amended: when the one failing item is a batch_upload item whose data
\* is not valid base64, the response has total N, successful N - 1, failed 1,
\* the error in that slot and the values in the others; when it is an upload
\* item without name or data or a content id that is no UUID,
\* the whole request is rejected with a validation error naming that item
\* and no unit is started.
C5_OneUndecodableItem ==
    \A bad \in 0..MaxBatchSize :
        OneInvalidItem(bad) =>
            IF UndecodableOnly(bad) THEN OneFailureReported(bad)
            ELSE /\ bResp.kind = "error" /\ bResp.category = "validation"
                 /\ Len(bResp.field) >= 2
                 /\ bResp.field[1] = ArrayField[1] /\ bResp.field[2] = bad
                 /\ NothingStarted

\* C5 witness: a batch_upload of MaxBatchSize items whose middle item has
\* undecodable data has returned one failure among successes.
C5_Witness ==
    /\ OneInvalidItem(1) /\ UndecodableOnly(1)
    /\ BatchN = MaxBatchSize
    /\ OneFailureReported(1)

(***************************************************************************)
(* Properties of the /mcp endpoint                                         *)
(***************************************************************************)
McpAnswered == httpReq.kind = "http" /\ httpReq.path = "/mcp"

\* the request in hand passes the origin check and the credential check
OriginAndCredentialPass ==
    /\ ~OriginRejected(cfgHost, httpReq.origin)
    /\ CredentialCheck(cfgAuth, keys, now, httpReq).status = 0

\* the versions the documentation lists as supported
DocumentedVersions == {"2024-11-05", "2025-03-26", "2025-06-18"}

\* C7: with the origin and credential checks passing, a request to /mcp that
\* declares a protocol version is handed to the stream handler if and only if
\* that version is 2024-11-05, 2025-03-26 or 2025-06-18; any other version
\* string is answered 400 and nothing is handed over.
C7_SupportedVersionsOnly ==
    (McpAnswered /\ OriginAndCredentialPass /\ httpReq.version # "") =>
        /\ httpResp.handed <=> httpReq.version \in DocumentedVersions
        /\ httpReq.version \notin DocumentedVersions =>
              httpResp.status = 400 /\ httpResp.ctxSession = "" /\ httpResp.ctxApiKey = ""

\* C7 witness: the oldest supported version was declared, with authentication
\* on and a valid key, and the request was handed over.
C7_Witness ==
    /\ McpAnswered /\ OriginAndCredentialPass
    /\ cfgAuth
    /\ httpReq.version = "2024-11-05"
    /\ httpResp.handed

\* the digits of a date string
Digit(c) ==
    CASE c = "0" -> 0 [] c = "1" -> 1 [] c = "2" -> 2 [] c = "3" -> 3 [] c = "4" -> 4
      [] c = "5" -> 5 [] c = "6" -> 6 [] c = "7" -> 7 [] c = "8" -> 8 [] c = "9" -> 9

RECURSIVE Number(_)
Number(str) ==
    IF Len(str) = 0 THEN 0
    ELSE 10 * Number(SubSeq(str, 1, Len(str) - 1)) + Digit(SubSeq(str, Len(str), Len(str)))

\* "YYYY-MM-DD" as the number YYYYMMDD
DateNumber(v) ==
    10000 * Number(SubSeq(v, 1, 4)) + 100 * Number(SubSeq(v, 6, 7)) + Number(SubSeq(v, 9, 10))

\* the oldest entry of the allow-list
OldestSupported ==
    CHOOSE v \in DocumentedVersions :
        \A w \in DocumentedVersions : DateNumber(v) <= DateNumber(w)

\* a request to /mcp without the version header got past the origin check
NoVersionHeader ==
    /\ McpAnswered
    /\ httpReq.version = ""
    /\ ~OriginRejected(cfgHost, httpReq.origin)

\* C8 as stated: without a protocol-version header the version used for
\* negotiation is the oldest value of the allow-list.
C8_AsStated ==
    (NoVersionHeader /\ httpResp.handed) => httpResp.protocolVersion = OldestSupported

\* C8 amended: without a protocol-version header the version used for
\* negotiation is 2025-03-26, the middle value of the allow-list, so the
\* request is never answered 400.
C8_DefaultVersion ==
    NoVersionHeader =>
        /\ httpResp.protocolVersion = "2025-03-26"
        /\ httpResp.protocolVersion \in DocumentedVersions
        /\ httpResp.status # 400

\* C8 witness: a request without the header was handed over.
C8_Witness == NoVersionHeader /\ httpResp.handed

\* C9: a request to /mcp that fails the origin, protocol-version or
\* credential check is answered 403, 400 or 401, the first failing check in
\* that order deciding, and is never handed to the stream handler: no
\* session id or key is put in a context for it.
C9_RejectedAtTransport ==
    McpAnswered =>
        LET originFails == OriginRejected(cfgHost, httpReq.origin)
            versionFails == httpReq.version # "" /\ httpReq.version \notin DocumentedVersions
            credentialFails == cfgAuth /\ Validate(keys, now, extractAPIKeyFromHeader(httpReq)) # ""
            rejected == ~httpResp.handed /\ httpResp.ctxSession = "" /\ httpResp.ctxApiKey = ""
        IN  /\ originFails => httpResp.status = 403 /\ rejected
            /\ (~originFails /\ versionFails) => httpResp.status = 400 /\ rejected
            /\ (~originFails /\ ~versionFails /\ credentialFails) =>
                  httpResp.status = 401 /\ rejected
            /\ (originFails \/ versionFails \/ credentialFails) <=> ~httpResp.handed

\* C9 witness: a request with an unsupported version and an expired key was
\* answered 400.
C9_Witness ==
    /\ McpAnswered
    /\ cfgAuth
    /\ httpReq.version = "1999-01-01"
    /\ Validate(keys, now, extractAPIKeyFromHeader(httpReq)) = "API key has expired"
    /\ httpResp.status = 400

\* the host of an origin scheme://host[:port]
OriginHost(o) ==
    LET at == IndexOf(o, "://")
        rest == SubSeq(o, at + 3, Len(o))
        stops == {i \in 1..Len(rest) : SubSeq(rest, i, i) \in {":", "/"}}
    IN  IF at = 0 THEN ""
        ELSE IF stops = {} THEN rest
        ELSE SubSeq(rest, 1, Min(stops) - 1)

\* an origin whose host is the loop-back host
IsLoopbackOrigin(o) == OriginHost(o) \in {"localhost", "127.0.0.1"}

\* C10: on a server bound to localhost or 127.0.0.1, a request to /mcp with
\* an Origin header is accepted only if the origin is a loop-back origin;
\* every other origin is refused, with 403 when nothing else is wrong with
\* the request.
C10_OnlyLoopbackOrigins ==
    (McpAnswered /\ cfgHost \in {"localhost", "127.0.0.1"} /\ httpReq.origin # ""
        /\ ~IsLoopbackOrigin(httpReq.origin)) =>
            /\ ~httpResp.handed
            /\ httpResp.status \in {403, 400, 401}
            /\ (httpReq.version \in DocumentedVersions /\ ~cfgAuth) => httpResp.status = 403

\* the answer the /mcp handler gives to the answered request with its
\* Mcp-Session-Id header replaced by sid
AnswerWithSession(sid) ==
    McpAnswer(cfgHost, cfgAuth, keys, now, [httpReq EXCEPT !.session = sid])

\* C11: the Mcp-Session-Id header is advisory. A request to /mcp gets the
\* same decision (handed over or refused, with the same status and body)
\* as the same request with any other session id or with none, so the header
\* never causes a refusal; and when the request is handed over, the header's
\* value is in the request context unchanged.
C11_SessionIdAdvisory ==
    McpAnswered =>
        /\ \A sid \in SessionHeaders :
            /\ AnswerWithSession(sid).handed = httpResp.handed
            /\ AnswerWithSession(sid).status = httpResp.status
            /\ AnswerWithSession(sid).body = httpResp.body
            /\ AnswerWithSession(sid).ctxSession = (IF httpResp.handed THEN sid ELSE "")
        /\ httpResp.handed => httpResp.ctxSession = httpReq.session

\* a request with a session id was handed over with it
C11_Witness ==
    /\ McpAnswered
    /\ httpReq.session = "s2"
    /\ httpResp.handed
    /\ httpResp.ctxSession = "s2"


\* the credential the answered request carries: X-API-Key, else Authorization
\* with an optional Bearer prefix
CarriedKey == extractAPIKeyFromHeader(httpReq)

\* the carried key is registered now and its expiry, if any, has not passed
CarriedKeyGood ==
    /\ CarriedKey # ""
    /\ CarriedKey \in DOMAIN keys
    /\ keys[CarriedKey].ExpiresAt = NoExpiry \/ now <= keys[CarriedKey].ExpiresAt

\* C12: with authentication enabled, a request to /mcp is handed to the
\* stream handler only if the key it carries (X-API-Key, or Authorization
\* with an optional Bearer prefix) is registered and unexpired, and then that
\* key is in the request context; a request whose key is missing, unknown or
\* expired is never handed over and, when its origin and version pass, is
\* answered 401.
C12_CredentialRequired ==
    (cfgAuth /\ McpAnswered) =>
        /\ httpResp.handed => (CarriedKeyGood /\ httpResp.ctxApiKey = CarriedKey)
        /\ ~CarriedKeyGood =>
            /\ ~httpResp.handed
            /\ httpResp.status \in {403, 400, 401}
            /\ (~OriginRejected(cfgHost, httpReq.origin)
                    /\ ValidVersion(NegotiatedVersion(httpReq))) => httpResp.status = 401

\* an expiring key that is still valid, sent as a Bearer token, was accepted
\* and attached to the context
C12_Witness ==
    /\ cfgAuth
    /\ McpAnswered
    /\ httpReq.xApiKey = ""
    /\ httpReq.authorization = "Bearer k2"
    /\ httpResp.handed
    /\ httpResp.ctxApiKey = "k2"


\* the answered request went to one of the two probe endpoints
ProbeAnswered == httpReq.kind = "http" /\ httpReq.path \in {"/health", "/ready"}

\* C19: every request to /health is answered 200 "OK" and every request to
\* /ready 200 "READY", whatever its protocol-version, Origin, session id and
\* credential headers and whether or not authentication is enabled; the
\* request is not handed to the stream handler, and no session id or key is
\* put in a context.
C19_ProbesAlwaysOk ==
    ProbeAnswered =>
        /\ httpResp.status = 200
        /\ httpResp.body = (IF httpReq.path = "/health" THEN "OK" ELSE "READY")
        /\ ~httpResp.handed
        /\ httpResp.ctxSession = ""
        /\ httpResp.ctxApiKey = ""

\* /health answered a request that /mcp would refuse three times over: a
\* foreign origin, an unsupported version and no credential with
\* authentication enabled
C19_Witness ==
    /\ httpReq.kind = "http"
    /\ httpReq.path = "/health"
    /\ cfgAuth
    /\ cfgHost = "localhost"
    /\ httpReq.origin = "http://evil.example"
    /\ httpReq.version = "1999-01-01"
    /\ httpReq.session = "s1"
    /\ httpReq.xApiKey = ""
    /\ httpReq.authorization = ""
    /\ httpResp.status = 200


\* a key that is registered now and whose expiry, if any, has not passed
KeyGood(k) ==
    /\ k \in DOMAIN keys
    /\ keys[k].ExpiresAt = NoExpiry \/ now <= keys[k].ExpiresAt

\* a registered, unexpired key was validated for the call being answered, at
\* the transport or in the middleware
KeyValidatedForCall ==
    \/ callAuth.gate # "" /\ KeyGood(callAuth.gate)
    \/ callAuth.middleware # "" /\ KeyGood(callAuth.middleware)

\* C13: with authentication enabled, in every transport mode, a tool call or
\* a resource read makes a backend call only if a registered and unexpired
\* API key was validated for it.
C13_NoBackendWithoutKey ==
    (cfgAuth /\ ~CallIsIdle /\ callTrace # <<>>) => KeyValidatedForCall


\* the call being answered is an upload_content made with a key the
\* middleware validated, and its arguments are well-formed
UploadWithValidKey ==
    /\ cfgAuth
    /\ callReq.kind = "tool"
    /\ callReq.op = "upload_content"
    /\ callAuth.middleware # ""
    /\ callReq.args.json
    /\ callReq.args.owner_id \in UUIDs
    /\ callReq.args.name = "a"
    /\ callReq.args.data = "QQ=="

\* C14: with authentication enabled, a tool call made with a valid key whose
\* owner differs from the owner_id of the call is refused with a forbidden
\* error and makes no backend call; a call whose owner_id is the key's owner
\* is not refused for its owner.
C14_OwnershipEnforced ==
    UploadWithValidKey =>
        IF keys[callAuth.middleware].OwnerID # callReq.args.owner_id
        THEN /\ callResp.kind = "error"
             /\ callResp.category = "forbidden"
             /\ callTrace = <<>>
        ELSE ~(callResp.kind = "error" /\ callResp.category \in {"forbidden", "unauthorized"})


\* C15: APIKeyAuthenticator is linearizable under concurrent AddKey, RemoveKey
\* and Validate: what a Validate(k) returns is what a Validate taking effect
\* at one moment between its call and its return gives, that is the key's
\* info exactly when k is registered and not expired at that moment, the
\* invalid-key error for an unregistered key and the expired-key error for
\* an expired one; and a Validate(k) called when k is not registered, with
\* no AddKey(k) under way since, fails.
C15_Linearizable ==
    tpc[Validator] = "RUnlock" =>
        /\ vres \in vposs
        /\ vmustFail => vres.err # ""

\* a Validate is about to return a key's info although, while it ran, a
\* RemoveKey of that key was called and is waiting for the lock
C15_Witness ==
    /\ tpc[Validator] = "RUnlock"
    /\ vres.err = ""
    /\ Cardinality(vposs) > 1
    /\ tpc[Remover] = "Lock"
    /\ tkey[Remover] = tkey[Validator]


\* the categories of the error taxonomy
Taxonomy == {"validation", "not-found", "storage", "unauthorized", "forbidden", "internal"}

\* C16: every error a tool handler returns after a backend call failed
\* carries one of the taxonomy categories.
C16_BackendErrorsCategorised ==
    (callReq.kind = "tool" /\ fault # "" /\ callTrace # <<>> /\ callResp.kind = "error")
        => callResp.category \in Taxonomy


\* the required fields of the tool call being answered that are missing or
\* mistyped in its arguments
MissingRequired ==
    IF callReq.kind # "tool" \/ ~callReq.args.json THEN {}
    ELSE IF callReq.op \in {"get_content", "get_content_details", "delete_content"}
        THEN IF parseUUIDFails(callReq.args.content_id) THEN {<<"content_id">>} ELSE {}
    ELSE IF callReq.op = "list_content"
        THEN IF cfgRequireOwner /\ parseUUIDFails(callReq.args.owner_id)
             THEN {<<"owner_id">>} ELSE {}
    ELSE IF callReq.op = "upload_content"
        THEN (IF parseUUIDFails(callReq.args.owner_id) THEN {<<"owner_id">>} ELSE {})
             \cup (IF callReq.args.name = "" THEN {<<"name">>} ELSE {})
             \cup (IF callReq.args.data = "" THEN {<<"data">>} ELSE {})
    ELSE {}

\* C17: when a field the tool's descriptor marks as required is missing or
\* mistyped, the handler fails with a validation error that names such a
\* field, and makes no backend call.
C17_RequiredFieldsValidated ==
    MissingRequired # {} =>
        /\ callResp.kind = "error"
        /\ callResp.category = "validation"
        /\ callResp.field \in MissingRequired
        /\ callTrace = <<>>


\* C20: list_content and search_content never return more items than
\* MaxPageSize, whatever limit the caller gives.
C20_PageSizeCapped ==
    (/\ callReq.kind = "tool"
     /\ callReq.op \in {"list_content", "search_content"}
     /\ callResp.kind = "result")
        => Len(callResp.payload.items) <= cfgMaxPage


\* the backend read of a well-formed get_content or get_content_details
ReadOf(req) ==
    BackendCall(IF req.op = "get_content" THEN "GetContent" ELSE "GetContentDetails",
                req.args.content_id)

DeclaredField(n) == IF n <= Len(fnArg.fields) THEN fnArg.fields[n] ELSE ""

\* C21: an entry key:ownerId:tenantId?:expiresAt? is accepted iff it has a
\* key and a valid owner UUID; the loaded key has the declared key and
\* owner, has no tenant only when the tenant field is empty or absent, and
\* has no expiry only when the expiresAt field is empty or absent.
C21_EntryLoadedAsDeclared ==
    (fnArg.kind = "env" /\ fnRet.kind # "none") =>
        /\ fnRet.kind = "keyInfo" <=> (DeclaredField(1) # "" /\ ParsesAsUUID(DeclaredField(2)))
        /\ fnRet.kind = "keyInfo" =>
            /\ fnRet.Key = DeclaredField(1)
            /\ fnRet.OwnerID = DeclaredField(2)
            /\ fnRet.TenantID = None <=> DeclaredField(3) = ""
            /\ fnRet.ExpiresAt = NoExpiry <=> DeclaredField(4) = ""


\* C22: New fails exactly when Service is nil, Name or Version is empty,
\* MaxBatchSize, DefaultPageSize or MaxPageSize is not positive,
\* DefaultPageSize exceeds MaxPageSize, or AuthEnabled is set with a nil
\* Authenticator; every other configuration gives a server.
C22_ValidateExact ==
    (fnArg.kind = "config" /\ fnRet.kind # "none") =>
        /\ fnRet.kind \in {"error", "server"}
        /\ fnRet.kind = "error" <=>
            \/ ~fnArg.Service
            \/ fnArg.Name = ""
            \/ fnArg.Version = ""
            \/ fnArg.MaxBatchSize < 1
            \/ fnArg.DefaultPageSize < 1
            \/ fnArg.MaxPageSize < 1
            \/ fnArg.DefaultPageSize > fnArg.MaxPageSize
            \/ (fnArg.AuthEnabled /\ ~fnArg.Authenticator)

\* New has refused a configuration whose only fault is a default page size
\* above the maximum
C22_Witness ==
    /\ fnArg.kind = "config"
    /\ fnRet.kind = "error"
    /\ fnArg.Service /\ fnArg.Name # "" /\ fnArg.Version # ""
    /\ fnArg.MaxBatchSize = 1 /\ fnArg.MaxPageSize = 1 /\ fnArg.DefaultPageSize = 2
    /\ ~fnArg.AuthEnabled


\* C23: result slot s is written exactly once, by the unit started for item
\* s and by no other (a slot changes only in the step in which unit s stores
\* and finishes, that step does change it, and a finished unit stays
\* finished), and the handler reads the results to build its response only
\* in a step in which every unit has already finished.
C23_OneWriterJoinBeforeRead ==
    [][/\ \A s \in DOMAIN results :
            /\ (s \in DOMAIN results' /\ results'[s] # results[s])
                    => /\ upc[s] = "store" /\ mu = s /\ upc'[s] = "done"
                       /\ results[s] = MakeResults(bTool, BatchN)[s]
            /\ (upc[s] = "store" /\ upc'[s] = "done")
                    => /\ s \in DOMAIN results' /\ results'[s] # results[s]
                       /\ \A o \in DOMAIN results \ {s} : results'[o] = results[o]
            /\ upc[s] = "done" => upc'[s] = "done"
       /\ (bResp' # bResp /\ bResp'.kind = "ok")
            => /\ \A s \in DOMAIN upc : upc[s] = "done"
               /\ bResp'.results = results
      ]_vars

\* a unit has stored its result and finished while another has not yet made
\* its backend call and a third waits for the lock, and the handler waits
C23_Witness ==
    /\ bpc = "wait"
    /\ \E i, j, k \in DOMAIN upc :
          /\ upc[i] = "call" /\ upc[j] = "done" /\ upc[k] = "lock" /\ i < j
          /\ results[j] = ulocal[j]
          /\ results[i] = MakeResults(bTool, BatchN)[i]


\* C24: under fair scheduling, with every decode and backend call returning,
\* a batch handler that has been called eventually returns its response, and
\* it never returns a response while a unit has not finished.
C24_BatchTerminates ==
    /\ (bpc # "idle") ~> (bpc = "returned")
    /\ [](bpc = "returned" => \A i \in DOMAIN upc : upc[i] = "done")

\* a full batch has returned although the last unit started was the first to
\* finish: every slot is filled
C24_Witness ==
    /\ bpc = "returned"
    /\ bResp.kind = "ok"
    /\ BatchN = MaxBatchSize
    /\ \A i \in Units : upc[i] = "done" /\ results[i] = ulocal[i]
    /\ bTool = "batch_upload"
    /\ \A i \in Units : ulocal[i].Success


\* the call being answered is a tool call that the transport dispatched
DispatchedToolCall == callReq.kind = "tool" /\ callResp.kind # "transport"

\* C25: with authentication enabled, a dispatched tool call runs its handler
\* only if the api_key of its context is registered and unexpired at the
\* time of the call, and the handler then runs for that key; with no key in
\* the context, or a key that has been removed or has expired since the
\* stream was opened, the call fails with an authentication error and the
\* handler is not run.
C25_ValidatedAtEachCall ==
    (cfgAuth /\ DispatchedToolCall) =>
        IF callAuth.gate # "" /\ KeyGood(callAuth.gate)
        THEN callAuth.middleware = callAuth.gate
        ELSE /\ callAuth.middleware = ""
             /\ callTrace = <<>>
             /\ callResp.kind = "error"
             /\ HasPrefix(callResp.msg, "authentication ")

\* a call made on a stream whose key was valid when the stream was opened
\* and is not any more has been refused
C25_Witness ==
    /\ cfgAuth
    /\ DispatchedToolCall
    /\ stream.open /\ stream.key # ""
    /\ callAuth.gate = stream.key
    /\ ~KeyGood(stream.key)
    /\ callResp.kind = "error"
    /\ callReq.args.json /\ callReq.args.content_id \in UUIDs


\* C26: in SSE mode, once the context passed to Serve is cancelled, Serve
\* eventually returns, with no stream left open, even if a client stream is
\* open at that moment.
C26_ShutdownReturns ==
    ctxDone ~> (srvState = "returned" /\ ~stream.open)


\* the message holds the word, whatever the case of its letters
HasWord(msg, word) == containsString(toLowerString(msg), word)

\* the category of the first rule that matches, "" when none does
FirstRule(msg) ==
    IF HasWord(msg, "not found") THEN "not-found"
    ELSE IF HasWord(msg, "validation") \/ HasWord(msg, "invalid") THEN "validation"
    ELSE IF HasWord(msg, "storage") \/ HasWord(msg, "blob") \/ HasWord(msg, "s3") THEN "storage"
    ELSE IF HasWord(msg, "unauthorized") \/ HasWord(msg, "authentication") THEN "unauthorized"
    ELSE IF HasWord(msg, "forbidden") \/ HasWord(msg, "permission") THEN "forbidden"
    ELSE ""

\* C27: MapError maps nil to nil; otherwise the category is that of the first
\* rule, in the order not-found, validation, storage, unauthorized,
\* forbidden, whose word the message holds in any case of letters; the
\* original message is kept in front of the result's message; and applying
\* MapError to its own result gives the same category.
C27_MapErrorPrecedence ==
    (fnArg.kind = "err" /\ fnRet.kind = "mapped") =>
        IF fnArg.nil THEN fnRet.first = NilError /\ fnRet.err = NilError
        ELSE /\ fnRet.first.kind = "error"
             /\ fnRet.first.category = FirstRule(fnArg.msg)
             /\ HasPrefix(fnRet.first.msg, fnArg.msg)
             /\ fnRet.err.kind = "error"
             /\ fnRet.err.category = fnRet.first.category
             /\ HasPrefix(fnRet.err.msg, fnArg.msg)

\* an error whose message holds a storage word in capitals in front of the
\* not-found words has been mapped twice: not-found both times
C27_Witness ==
    /\ fnArg.kind = "err"
    /\ fnArg.msg = "S3 Not Found"
    /\ fnRet.kind = "mapped"
    /\ fnRet.times = 2
    /\ fnRet.err.category = "not-found"
    /\ fnRet.err.msg = "S3 Not Found: not found: not found"


\* the call being answered is a list_content or search_content with
\* well-formed arguments for a known owner, on a healthy backend
PagedCall ==
    /\ callReq.kind = "tool"
    /\ callReq.op \in {"list_content", "search_content"}
    /\ callReq.args.json
    /\ callReq.args.owner_id \in UUIDs
    /\ fault = ""

\* the list the call's filters select
FilteredList ==
    IF callReq.op = "list_content"
    THEN LET owned == SelectOwner(store, callReq.args.owner_id)
         IN  IF callReq.args.status = "" THEN owned ELSE SelectStatus(owned, callReq.args.status)
    ELSE LET owned == SelectOwner(store, callReq.args.owner_id)
             byQuery == IF callReq.args.query = "" THEN owned
                        ELSE SelectQuery(owned, toLowerString(callReq.args.query))
         IN  IF callReq.args.status = <<>> THEN byQuery
             ELSE SelectStatuses(byQuery, callReq.args.status)

\* the limit and the offset in force
LimitInForce == IF callReq.args.limit.set THEN callReq.args.limit.v ELSE cfgDefaultPage
OffsetInForce == IF callReq.args.offset.set THEN callReq.args.offset.v ELSE 0

\* C28: for every integer limit and offset, zero and negative ones included,
\* list_content and search_content return a result; its total is the length
\* n of the filtered list and, for a limit and an offset that are not
\* negative, its items are the items of the filtered list from position
\* min(offset, n) on, at most limit of them.
C28_PaginationTotal ==
    PagedCall =>
        /\ callResp.kind = "result"
        /\ callResp.payload.total = Len(FilteredList)
        /\ Len(callResp.payload.items) <= IF LimitInForce < 0 THEN 0 ELSE LimitInForce
        /\ (LimitInForce >= 0 /\ OffsetInForce >= 0) =>
              callResp.payload.items =
                  ContentsJSON(SubSeq(FilteredList,
                                      Min({OffsetInForce, Len(FilteredList)}) + 1,
                                      Min({OffsetInForce + LimitInForce, Len(FilteredList)})))


(***************************************************************************)
(* Properties of update_content                                            *)
(***************************************************************************)
\* C29: update_content is all-or-nothing: when a call has returned an error
\* and no other call has written the content since it began, the stored
\* content and its metadata are what they were before the call.
C29_UpdateAllOrNothing ==
    \A u \in Updaters :
        (upd[u].pc = "returned" /\ upd[u].ret.kind = "error" /\ upd[u].alone)
            => uStore = upd[u].before

\* the call changes the name only
OnlyName(args) ==
    /\ args.content_id = StoredContent.ID
    /\ args.name # "" /\ args.description = ""
    /\ ~WantsMetadata(args)

\* the call changes the description only
OnlyDescription(args) ==
    /\ args.content_id = StoredContent.ID
    /\ args.name = "" /\ args.description # ""
    /\ ~WantsMetadata(args)

\* both goroutines' calls have returned success, one changed the name only
\* and the other the description only
DisjointUpdatesDone(u, o) ==
    /\ u # o
    /\ upd[u].pc = "returned" /\ upd[u].ret = UpdateSuccess
    /\ upd[o].pc = "returned" /\ upd[o].ret = UpdateSuccess
    /\ OnlyName(upd[u].args)
    /\ OnlyDescription(upd[o].args)

\* C30: two update_content calls on the same content that ran concurrently,
\* one changing only the name and the other only the description, both take
\* effect: once both have returned success the stored content has the new
\* name and the new description.
C30_DisjointUpdatesBothApply ==
    \A u, o \in Updaters :
        (DisjointUpdatesDone(u, o) /\ updOverlap)
            => /\ uStore.Name = upd[u].args.name
               /\ uStore.Description = upd[o].args.description

====
